---- MODULE Spec2Model ----
(***************************************************************************)
(* The browser client of the AMMINA / PharmaQuery dashboard: the HTTP      *)
(* gateway (class API), and the two application controllers                *)
(* (PharmaQueryApp and AMINAApp) with their query, upload and dataset      *)
(* operations.  JavaScript runs handlers to completion between awaits, so  *)
(* an action is a handler from its entry (or from the resumption of an     *)
(* await) to its next await or its return.                                 *)
(***************************************************************************)
EXTENDS Integers, Sequences, FiniteSets, Bags, TLC

VARIABLES
    variant,        \* which controller/gateway pair the page loads: "AMINA" or "Pharma"
    authManager,    \* window.authManager is defined
    authModal,      \* window.authManager.showAuthModal() has been invoked
    apiCall,        \* the last direct API.request call: its response and outcome
    exportCall,     \* the last API.exportResults call: its response and outcome
    login,          \* the form LoginManager last handled: its fields and the
                    \* verdict of validatePassword on its password
    server,         \* what the server stores for this user: [datasets, history]
    trip,           \* the latest upload the server stored: the ids listed before it,
                    \* the id it was given, and whether it has been deleted since
    page,           \* "app", "leaving" (redirect to /login scheduled) or "login"
    currentUser,    \* this.currentUser: "none", "user" or "admin"
    currentSection, \* this.currentSection
    datasets,       \* this.datasets: the local cache, a set of [id, name]
    selected,       \* the checked dataset checkboxes of #queryDatasetsList (Pharma)
    queryHistory,   \* this.queryHistory: a set of [id, success]
    currentQuery,   \* this.currentQuery: NoResult or a result id
    queryInput,     \* the value of #queryInput, a sequence of characters
    executeBtn,     \* #executeQueryBtn: [disabled, label]
    resultsVisible, \* #queryResults style.display = 'block'
    views,          \* placeholders of #datasetsList and #historyList, the modal
                    \* and the text of #totalQueries
    net,            \* the bag of requests awaiting their response
    batches,        \* the handleFileSelect invocations in progress
    fileInput,      \* the value of #fileInput: "" or "chosen"
    progress,       \* #uploadProgress: [visible, status, hidePending], with the
                    \* width of #progressFill and the progress timers running
    toast,          \* the toast shown by the latest handler step, or NoToast
    unhandled,      \* a promise of a handler was rejected with nobody awaiting it
    clicks,         \* the user events handled so far, counted up to MaxClicks
    queryResult,    \* response.result of the query answered last, as renderQueryResults
                    \* reads it: [visualizations, data_tables]
    content,        \* #resultsContent: the blocks of the latest render, and how
                    \* many renders there have been
    timers,         \* the deferred renderVisualization callbacks, oldest first
    now,            \* what Date.now() returns
    toastContainer, \* UI.toastContainer is an element
    toastId,        \* UI.toastId
    notices,        \* the toasts in the document: a set of [id, leaving]
    toastTimers,    \* the bag of pending timers of showToast and removeToast
    step            \* the latest handler step: [op, ev, batch, file, error]

vars == <<variant, authManager, authModal, apiCall, exportCall, login, server, trip, page, currentUser, currentSection,
          datasets, selected,
          queryHistory, currentQuery, queryInput, executeBtn, resultsVisible, views,
          net, batches, fileInput, progress, toast, unhandled, clicks, step,
          queryResult, content, timers, now, toastContainer, toastId, notices, toastTimers>>

-----------------------------------------------------------------------------
(* Bounds of the model *)

MaxDatasets == 1      \* dataset ids the server may hold
MaxHistory == 1       \* history entries the server may hold
MaxResults == 2       \* distinct query results the server may return
MaxQueryLen == 2      \* characters typed into the query box
MaxBatches == 2       \* handleFileSelect invocations in progress at once
MaxFiles == 2         \* files of one drop or selection
MaxPending == 1       \* requests of click-triggered loads outstanding at once
MaxNameLen == 2       \* characters entered into the rename prompt
MaxClicks == 2        \* user events counted
MaxCore == 3          \* freely chosen characters at the start of a password
MaxPad == 6           \* repetitions of one character that complete a password
MaxViz == 2           \* entries of result.visualizations
MaxTables == 1        \* entries of result.data_tables
MaxRows == 2          \* records of a data table
MaxClock == 2         \* readings of Date.now() beyond the first
MaxRenders == 3       \* renders of #resultsContent followed
MaxToasts == 2        \* calls of UI.showToast followed
MaxToastTimers == 3   \* timers of toasts pending at once

-----------------------------------------------------------------------------
(* HTTP Client Gateway: what fetch delivers and what API.request makes of it *)

Statuses == {200, 401, 403}

\* The message of the TypeError a failed fetch rejects with; it depends on the browser.
TransportMessages == {"Failed to fetch", "Load failed"}

ServerError == "Invalid request"

NoBody == [success |-> FALSE, error |-> "", auth_error |-> FALSE]

\* A parsed JSON body; error = "" stands for a body without an error field.
Bodies == [success : BOOLEAN, error : {"", ServerError}, auth_error : BOOLEAN]

\* Everything fetch can deliver: a rejection (transport failure) or a response
\* with a status and a body that is JSON or not.
Responses ==
    {[type |-> "transport", message |-> m, status |-> 0, json |-> FALSE, body |-> NoBody]
        : m \in TransportMessages}
    \cup {[type |-> "http", message |-> "", status |-> s, json |-> FALSE, body |-> NoBody]
        : s \in Statuses}
    \cup {[type |-> "http", message |-> "", status |-> s, json |-> TRUE, body |-> b]
        : s \in Statuses, b \in Bodies}

\* response.ok
ok(status) == status \in 200..299

AuthRequiredMsg == "Authentication required"
NetworkErrorMsg == "Network error. Please check your connection and try again."
HttpErrorMsg(status) == "HTTP error! status: " \o ToString(status)
JsonErrorMsg == "Unexpected token < in JSON at position 0"
RenderErrorMsg == "Cannot read properties of undefined"

Return(data) ==
    [tag |-> "return", data |-> data, name |-> "", message |-> "", hook |-> FALSE]
Throw(name, message, hook) ==
    [tag |-> "throw", data |-> NoBody, name |-> name, message |-> message, hook |-> hook]

\* error.message.includes('fetch')
IncludesFetch(message) == message \in {"Failed to fetch"}

\* catch (error) of API.request: a TypeError that mentions fetch becomes the
\* network error, every other error is thrown on as it is.
CatchRequest(out) ==
    IF out.tag = "throw" /\ out.name = "TypeError" /\ IncludesFetch(out.message)
    THEN Throw("Error", NetworkErrorMsg, out.hook)
    ELSE out

\* fetch(url, config) followed by response.json()
FetchJson(resp) ==
    IF resp.type = "transport" THEN Throw("TypeError", resp.message, FALSE)
    ELSE IF ~resp.json THEN Throw("SyntaxError", JsonErrorMsg, FALSE)
    ELSE Return(resp.body)

IsAuthError_WrongStatus(resp) == resp.status = 403 /\ resp.body.auth_error

\* if (response.status === 401 && data.auth_error)
IsAuthError(resp) == resp.status = 401 /\ resp.body.auth_error

\* API.request of the AMMINA gateway
AMINA_request(resp, hasAuthManager) ==
    LET got == FetchJson(resp) IN
    CatchRequest(
        IF got.tag = "throw" THEN got
        ELSE IF ~ok(resp.status)
             THEN IF IsAuthError(resp)
                  THEN Throw("Error", AuthRequiredMsg, hasAuthManager)
                  ELSE Throw("Error",
                             IF got.data.error # "" THEN got.data.error
                             ELSE HttpErrorMsg(resp.status),
                             FALSE)
             ELSE got)

\* API.request of the PharmaQuery gateway: no authentication branch
Pharma_request(resp) ==
    LET got == FetchJson(resp) IN
    CatchRequest(
        IF got.tag = "throw" THEN got
        ELSE IF ~ok(resp.status)
             THEN Throw("Error",
                        IF got.data.error # "" THEN got.data.error
                        ELSE HttpErrorMsg(resp.status),
                        FALSE)
             ELSE got)

\* API.request of the gateway the page has loaded
request(v, resp, hasAuthManager) ==
    IF v = "AMINA" THEN AMINA_request(resp, hasAuthManager) ELSE Pharma_request(resp)

\* What a call of API.request can come to, over everything fetch can deliver.
Outcomes == {request(variant, resp, authManager) : resp \in Responses}

\* What a direct fetch followed by response.json() can come to.
FetchOutcomes == {FetchJson(resp) : resp \in Responses}

ExportFailedMsg == "Export failed"

\* const errorData = await response.json(); throw new Error(errorData.error || 'Export failed')
ExportError(resp) ==
    IF ~resp.json THEN Throw("SyntaxError", JsonErrorMsg, FALSE)
    ELSE Throw("Error",
               IF resp.body.error # "" THEN resp.body.error ELSE ExportFailedMsg, FALSE)

\* if (response.status === 401) of API.exportResults
ExportIsAuthError(resp) == resp.status = 401

\* API.exportResults of the AMMINA gateway: the body of a response is read only
\* to report a failure; its catch throws every error on as it is.
AMINA_exportResults(resp, hasAuthManager) ==
    IF resp.type = "transport" THEN Throw("TypeError", resp.message, FALSE)
    ELSE IF ~ok(resp.status)
         THEN IF ExportIsAuthError(resp)
              THEN Throw("Error", AuthRequiredMsg, hasAuthManager)
              ELSE ExportError(resp)
         ELSE Return([NoBody EXCEPT !.success = TRUE])

\* API.exportResults of the PharmaQuery gateway: no authentication branch
Pharma_exportResults(resp) ==
    IF resp.type = "transport" THEN Throw("TypeError", resp.message, FALSE)
    ELSE IF ~ok(resp.status) THEN ExportError(resp)
         ELSE Return([NoBody EXCEPT !.success = TRUE])

\* API.exportResults of the gateway the page has loaded
exportResults(v, resp, hasAuthManager) ==
    IF v = "AMINA" THEN AMINA_exportResults(resp, hasAuthManager)
    ELSE Pharma_exportResults(resp)

-----------------------------------------------------------------------------
(* Data of the controllers *)

Variants == {"AMINA", "Pharma"}
Sections == {"dashboard", "datasets", "query", "history"}
Users == {"none", "user", "admin"}

DatasetIds == 1..MaxDatasets
NameChars == {" ", "a", "b"}
Names == {<<"a">>, <<"b">>}

\* The dataset lists a server can return: ids are unique within a list.
DatasetLists ==
    UNION {{{[id |-> i, name |-> f[i]] : i \in S} : f \in [S -> Names]}
            : S \in SUBSET DatasetIds}

HistoryIds == 1..MaxHistory

\* The history lists a server can return.
HistoryLists ==
    UNION {{{[id |-> i, success |-> f[i]] : i \in S} : f \in [S -> BOOLEAN]}
            : S \in SUBSET HistoryIds}

\* this.currentQuery: null, or the result of a query as the server returns it,
\* with the fields renderQueryResults reads.
NoResult == 0
Results == 1..MaxResults

Chars == {" ", "q"}
QueryTexts == UNION {[1..n -> Chars] : n \in 0..MaxQueryLen}

RECURSIVE TrimStart(_)
TrimStart(s) == IF s # <<>> /\ Head(s) = " " THEN TrimStart(Tail(s)) ELSE s

RECURSIVE TrimEnd(_)
TrimEnd(s) ==
    IF s # <<>> /\ s[Len(s)] = " " THEN TrimEnd(SubSeq(s, 1, Len(s) - 1)) ELSE s

\* String.prototype.trim
Trim(s) == TrimEnd(TrimStart(s))

NoToast == [type |-> "none", text |-> "", file |-> 0, detail |-> ""]

\* UI.showToast(message, type): the notice of this handler step
showToast(text, type) == [type |-> type, text |-> text, file |-> 0, detail |-> ""]
showToastFile(text, type, file, detail) ==
    [type |-> type, text |-> text, file |-> file, detail |-> detail]

\* The latest handler step: the handler, what it came to, the file it was about
\* and the message of the error it caught.
Step(op, ev) == [op |-> op, ev |-> ev, batch |-> 0, file |-> 0, error |-> ""]
StepFile(op, ev, b, k) == [op |-> op, ev |-> ev, batch |-> b, file |-> k, error |-> ""]
Fail(op, message) ==
    [op |-> op, ev |-> "failed", batch |-> 0, file |-> 0, error |-> message]
FailFile(op, b, k, message) ==
    [op |-> op, ev |-> "failed", batch |-> b, file |-> k, error |-> message]

\* A request awaiting its response, with the locals of the handler awaiting it
\* (text: what the user entered in the prompt of a rename), and for a list
\* request the server has already served, the list on its way back.
NoReq == [kind |-> "", cause |-> "none", batch |-> 0, file |-> 0, id |-> 0,
          name |-> <<>>, text |-> <<>>, admin |-> FALSE, served |-> FALSE,
          reply |-> {}]

Pending(kind) == {r \in BagToSet(net) : r.kind = kind}
Send(req) == net (+) SetToBag({req})
Receive(req) == net (-) SetToBag({req})

\* The error a handler catches: the one API.request threw, or
\* new Error(response.error) for a body that declares failure.
Succeeded(out) == out.tag = "return" /\ out.data.success
CaughtMessage(out) == IF out.tag = "throw" THEN out.message ELSE out.data.error

IdleBatch == [n |-> 0, pos |-> 0, phase |-> "idle", failed |-> {}]

\* #uploadProgress as the page is loaded: hidden, no timer running.
NoProgress ==
    [visible |-> FALSE, status |-> "", hidePending |-> FALSE, width |-> 0,
     intervals |-> {}]

-----------------------------------------------------------------------------
(* The password policy of LoginManager *)

\* The characters of a password: one of each class the rules tell apart, and a
\* symbol that is not in the punctuation set.
PwChars == {"A", "a", "1", "!", "-"}

Repeat(n, c) == [i \in 1..n |-> c]

\* The candidate passwords: up to MaxCore characters, completed by up to MaxPad
\* repetitions of one character.
Passwords ==
    {core \o Repeat(n, c) : core \in UNION {[1..k -> PwChars] : k \in 0..MaxCore},
                            n \in 0..MaxPad, c \in PwChars}

\* regex.test(password) for a character class
Test(class, password) == \E i \in 1..Len(password) : password[i] \in class

MinLength == 8
Uppercase == {"A"}      \* /[A-Z]/
Lowercase == {"a"}      \* /[a-z]/
Digits == {"1"}         \* /\d/
Special == {"!"}        \* /[!@#$%^&*(),.?":{}|<>]/

Invalid(message) == [valid |-> FALSE, message |-> message]

hasSpecial_AnySymbol(password) == Test(Special \cup {"-"}, password)

\* hasSpecial: /[!@#$%^&*(),.?":{}|<>]/.test(password)
hasSpecial(password) == Test(Special, password)

validatePassword_DigitFirst(password) ==
    IF Len(password) < MinLength
    THEN Invalid("Password must be at least 8 characters long")
    ELSE IF ~Test(Digits, password)
    THEN Invalid("Password must contain at least one number")
    ELSE IF ~Test(Uppercase, password)
    THEN Invalid("Password must contain at least one uppercase letter")
    ELSE IF ~Test(Lowercase, password)
    THEN Invalid("Password must contain at least one lowercase letter")
    ELSE IF ~hasSpecial(password)
    THEN Invalid("Password must contain at least one special character (!@#$%^&*)")
    ELSE [valid |-> TRUE, message |-> "Password is strong"]

\* validatePassword(password)
validatePassword(password) ==
    LET rules == [minLength |-> Len(password) >= MinLength,
                  hasUppercase |-> Test(Uppercase, password),
                  hasLowercase |-> Test(Lowercase, password),
                  hasNumber |-> Test(Digits, password),
                  hasSpecial |-> hasSpecial(password)]
    IN
    IF ~rules.minLength
    THEN Invalid("Password must be at least 8 characters long")
    ELSE IF ~rules.hasUppercase
    THEN Invalid("Password must contain at least one uppercase letter")
    ELSE IF ~rules.hasLowercase
    THEN Invalid("Password must contain at least one lowercase letter")
    ELSE IF ~rules.hasNumber
    THEN Invalid("Password must contain at least one number")
    ELSE IF ~rules.hasSpecial
    THEN Invalid("Password must contain at least one special character (!@#$%^&*)")
    ELSE [valid |-> TRUE, message |-> "Password is strong"]

\* No form has been submitted; the fields hold what the user typed.
NoForm == [form |-> "none", password |-> <<>>, confirmPassword |-> <<>>,
           adminKey |-> <<>>, check |-> Invalid("")]

-----------------------------------------------------------------------------
(* The server: the datasets and the query history it stores, and what the
   requests of this page do to them.  Nobody else changes them. *)

FreeDatasetIds(srv) == DatasetIds \ {d.id : d \in srv.datasets}
FreeHistoryIds(srv) == HistoryIds \ {q.id : q \in srv.history}
Least(S) == CHOOSE i \in S : \A j \in S : i <= j

\* The server has the dataset: it declares no success for one it has not.
Stored(srv, id) == \E d \in srv.datasets : d.id = id

\* The name the server gives to an uploaded dataset.
UploadedName == <<"a">>

\* POST /upload: the dataset is stored under an id of its own.
ServerAfterUpload(srv) ==
    [srv EXCEPT !.datasets = @ \cup {[id |-> Least(FreeDatasetIds(srv)),
                                      name |-> UploadedName]}]

\* PUT /shared-datasets/<id>/rename with body {name}
ServerAfterRename(srv, id, name) ==
    [srv EXCEPT !.datasets = {IF d.id = id THEN [d EXCEPT !.name = name] ELSE d : d \in @}]

\* DELETE /shared-datasets/<id>
ServerAfterDelete(srv, id) == [srv EXCEPT !.datasets = {d \in @ : d.id # id}]

\* POST /query: an executed query is recorded; the history keeps its latest
\* MaxHistory entries.
ServerAfterQuery(srv) ==
    LET id == IF FreeHistoryIds(srv) # {} THEN Least(FreeHistoryIds(srv))
              ELSE Least(HistoryIds)
    IN [srv EXCEPT !.history = {q \in @ : q.id # id} \cup {[id |-> id, success |-> TRUE]}]

\* DELETE /query-history
ServerAfterClear(srv) == [srv EXCEPT !.history = {}]

\* GET /datasets, GET /shared-datasets: the list a response carries is the one
\* the server stored when it served the request, which is now if it serves it
\* as the response is delivered.
ListReturned(req, srv) == IF req.served THEN req.reply ELSE srv.datasets

\* No upload is being followed.
NoTrip == [before |-> {}, id |-> 0, deleted |-> FALSE]

\* An upload has been stored while the page listed the datasets in local: it is
\* followed when that list was the server's.
TripAfterUpload(srv, local) ==
    IF {d.id : d \in local} = {d.id : d \in srv.datasets}
    THEN [before |-> {d.id : d \in local}, id |-> Least(FreeDatasetIds(srv)),
          deleted |-> FALSE]
    ELSE NoTrip

\* A dataset has been deleted: the upload followed, or another dataset.
TripAfterDelete(tr, id) ==
    IF id = tr.id /\ ~tr.deleted THEN [tr EXCEPT !.deleted = TRUE] ELSE NoTrip

-----------------------------------------------------------------------------
(* Query results as they are rendered into #resultsContent *)

\* A field an object does not carry (undefined).
Absent == ""

\* An entry of result.visualizations: {title, type, url | html}
Visualizations ==
    [title : {"A", "B"}, type : {"chart", Absent}, url : {"u", Absent},
     html : {"h", Absent}]

VizLists == UNION {[1..n -> Visualizations] : n \in 0..MaxViz}

\* The value of a cell of a record, with the text a template literal makes of it;
\* a record that lacks the column yields undefined.
CellValues ==
    {[type |-> "null", text |-> "null"], [type |-> "undefined", text |-> "undefined"],
     [type |-> "number", text |-> "0"], [type |-> "boolean", text |-> "false"],
     [type |-> "string", text |-> "x"]}

Columns == {"a", "b"}
ColumnLists == {<<>>, <<"a">>, <<"a", "b">>, <<"b", "a">>}
Records == [Columns -> CellValues]

\* An entry of result.data_tables: {title, columns, data}
DataTables ==
    [title : {"T"}, columns : ColumnLists,
     data : UNION {[1..n -> Records] : n \in 0..MaxRows}]

TableLists == UNION {[1..n -> DataTables] : n \in 0..MaxTables}

\* The content of a div.visualization
Image(src, alt) == [tag |-> "img", src |-> src, alt |-> alt, html |-> Absent]
Markup(html) == [tag |-> "markup", src |-> Absent, alt |-> Absent, html |-> html]
VizLoading == [tag |-> "viz-loading", src |-> Absent, alt |-> Absent, html |-> Absent]
NoVizContent ==
    [tag |-> "viz-error", src |-> Absent, alt |-> Absent,
     html |-> "No visualization content available"]

\* `viz-${Date.now()}-${index}`; a div.visualization of AMINAApp has no id
VizId(t, index) == <<t, index>>
NoId == <<>>

ImageOnly(viz) == Image(IF viz.url = Absent THEN "undefined" ELSE viz.url, viz.title)

\* The branches of the callback of PharmaQueryApp.renderVisualization
ByShape(viz) ==
    IF viz.type = "chart" /\ viz.url # Absent THEN Image(viz.url, viz.title)
    ELSE IF viz.html # Absent THEN Markup(viz.html)
    ELSE NoVizContent

\* The block renderQueryResults writes for entry index (from 0) of
\* result.visualizations in render number n: AMINAApp writes the image at once,
\* PharmaQueryApp a container with an id, filled later.  filledBy is the render
\* whose deferred callback filled the container.
VizBlock(v, viz, index, t, n) ==
    [title |-> viz.title,
     id |-> IF v = "Pharma" THEN VizId(t, index) ELSE NoId,
     body |-> IF v = "Pharma" THEN VizLoading ELSE ImageOnly(viz),
     filledBy |-> 0]

\* const displayValue = value === null || value === undefined ? '' : value
DisplayValue(value) == IF value.type \in {"null", "undefined"} THEN "" ELSE value.text

NoData == [tag |-> "no-data", header |-> <<>>, rows |-> <<>>]

\* AMINAApp.renderDataTable(table)
renderDataTable(table) ==
    IF table.data = <<>> THEN NoData
    ELSE [tag |-> "table",
          header |-> table.columns,
          rows |-> [i \in 1..Len(table.data) |->
                      [j \in 1..Len(table.columns) |->
                           DisplayValue(table.data[i][table.columns[j]])]]]

\* The table blocks renderQueryResults writes: AMINAApp one per entry of
\* result.data_tables, PharmaQueryApp none.
TableBlocks(v, tables) ==
    IF v = "Pharma" THEN <<>>
    ELSE [i \in 1..Len(tables) |->
              [title |-> tables[i].title, table |-> renderDataTable(tables[i])]]

NoContent == [render |-> 0, visualizations |-> <<>>, tables |-> <<>>, issued |-> {}]

\* Nothing has been rendered yet.
NothingRendered ==
    /\ queryResult = [visualizations |-> <<>>, data_tables |-> <<>>]
    /\ content = NoContent
    /\ timers = <<>>
    /\ now = 0

\* No toast has been shown yet; UI.init() has found #toastContainer.
NoNotices ==
    /\ toastContainer = TRUE
    /\ toastId = 0
    /\ notices = {}
    /\ toastTimers = EmptyBag

-----------------------------------------------------------------------------
(* Groups of variables, for the frame of the actions *)

renderVars == <<queryResult, content, timers, now>>
toastVars == <<toastContainer, toastId, notices, toastTimers>>
domVars == <<renderVars, toastVars>>
fixedVars == <<variant, authManager, apiCall, exportCall, login, domVars>>
envVars == <<fixedVars, server, trip>>
userVars == <<page, currentUser>>
dataVars == <<datasets, selected, queryHistory, views>>
queryVars == <<queryInput, executeBtn, resultsVisible, currentQuery>>
uploadVars == <<batches, fileInput, progress>>

\* The handlers whose awaits sit inside a try with a catch.
TryCatch_NoReplay ==
    {"loadDatasets", "uploadFile", "previewDataset", "showDatasetStats",
     "renameDataset", "deleteDataset", "executeQuery", "loadQueryHistory",
     "clearQueryHistory", "handleLogout"}

TryCatch ==
    {"loadDatasets", "uploadFile", "previewDataset", "showDatasetStats",
     "renameDataset", "deleteDataset", "executeQuery", "loadQueryHistory",
     "clearQueryHistory", "showQueryResult", "handleLogout"}

Caught(op, out) == ~Succeeded(out) /\ op \in TryCatch
Escapes(op, out) == ~Succeeded(out) /\ op \notin TryCatch

\* One more user event has been handled.
Clicked == IF clicks < MaxClicks THEN clicks + 1 ELSE clicks

\* The user has events left to give.
Budget == clicks < MaxClicks

\* The page is displayed and its handlers run.
Alive == page # "login"

\* The requests of loadInitialData: /api/auth/me and the loads that follow it.
Startup(r) == r.kind = "me" \/ r.cause = "init"

\* The click-triggered loads are capped by the requests outstanding, those of the
\* startup apart; continuations of handlers are not capped.
MayLoad ==
    BagCardinality([r \in {x \in BagToSet(net) : ~Startup(x)} |-> net[r]]) < MaxPending

-----------------------------------------------------------------------------
(* Query execution: executeQuery, clearResults, showQueryResult *)

\* The user edits #queryInput (typing, or setExampleQuery).
setQueryInput ==
    /\ Alive
    /\ \E text \in QueryTexts : queryInput' = text
    /\ toast' = NoToast /\ step' = Step("setQueryInput", "done")
    /\ clicks' = Clicked
    /\ UNCHANGED <<envVars, userVars, dataVars, uploadVars, authModal, currentSection,
                   executeBtn, resultsVisible, currentQuery, net, unhandled>>

\* toggleDatasetSelection(datasetId) on a rendered checkbox (PharmaQueryApp)
toggleDatasetSelection ==
    /\ Alive /\ variant = "Pharma"
    /\ \E d \in datasets :
         selected' = IF d.id \in selected THEN selected \ {d.id} ELSE selected \cup {d.id}
    /\ toast' = NoToast
    /\ step' = Step("toggleDatasetSelection", "done")
    /\ clicks' = Clicked
    /\ UNCHANGED <<envVars, userVars, uploadVars, queryVars, authModal, currentSection,
                   datasets, queryHistory, views, net, unhandled>>

ValidQuery_NoTrim(input) == input # <<>>

\* const queryText = ...value.trim(); if (!queryText) ...
ValidQuery(input) == Trim(input) # <<>>

\* this.datasets.length === 0 (AMINAApp); selectedDatasets.length === 0 (PharmaQueryApp)
NoDatasets == IF variant = "AMINA" THEN datasets = {} ELSE selected = {}

BtnExecuting_Enabled == [disabled |-> FALSE, label |-> "Executing..."]

\* executeBtn.disabled = true; executeBtn.innerHTML = '... Executing...'
BtnExecuting == [disabled |-> TRUE, label |-> "Executing..."]

BtnAfterQuery_NoFinally(out) ==
    IF Succeeded(out) THEN [disabled |-> FALSE, label |-> "Execute Query"]
    ELSE BtnExecuting

\* finally { executeBtn.disabled = false; executeBtn.innerHTML = '... Execute Query' }
BtnAfterQuery(out) == [disabled |-> FALSE, label |-> "Execute Query"]

CacheAfterQuery_ClearOnFailure(out, cur, result) ==
    IF Succeeded(out) THEN result ELSE NoResult

\* this.currentQuery = response.result, on success only
CacheAfterQuery(out, cur, result) == IF Succeeded(out) THEN result ELSE cur

\* A click on #executeQueryBtn (a disabled button delivers none): executeQuery
\* up to its await.
executeQuery ==
    /\ Alive /\ ~executeBtn.disabled
    /\ IF ~ValidQuery(queryInput)
       THEN /\ toast' = showToast("Please enter a query", "warning")
            /\ step' = Step("executeQuery", "rejected")
            /\ UNCHANGED <<net, executeBtn>>
       ELSE IF NoDatasets
       THEN /\ toast' = showToast(IF variant = "AMINA"
                                  THEN "No datasets available for querying"
                                  ELSE "Please select at least one dataset", "warning")
            /\ step' = Step("executeQuery", "rejected")
            /\ UNCHANGED <<net, executeBtn>>
       ELSE /\ executeBtn' = BtnExecuting
            /\ net' = Send([NoReq EXCEPT !.kind = "query"])
            /\ toast' = NoToast
            /\ step' = Step("executeQuery", "issued")
    /\ clicks' = Clicked
    /\ UNCHANGED <<envVars, userVars, dataVars, uploadVars, authModal, currentSection,
                   queryInput, resultsVisible, currentQuery, unhandled>>

\* executeQuery from the resumption of its await to its return.
executeQueryResponse ==
    /\ Alive
    /\ \E req \in Pending("query"), out \in Outcomes :
         \E result \in IF Succeeded(out) THEN Results ELSE {NoResult} :
         /\ net' = Receive(req)
         /\ authModal' = (authModal \/ out.hook)
         /\ currentQuery' = CacheAfterQuery(out, currentQuery, result)
         /\ executeBtn' = BtnAfterQuery(out)
         /\ unhandled' = (unhandled \/ Escapes("executeQuery", out))
         /\ IF Succeeded(out)
            THEN /\ resultsVisible' = TRUE
                 /\ toast' = showToast("Query executed successfully", "success")
                 /\ step' = Step("executeQuery", "success")
            ELSE /\ resultsVisible' = (resultsVisible /\ ~Caught("executeQuery", out))
                 /\ toast' = IF Caught("executeQuery", out)
                             THEN showToastFile("Query failed: ", "error", 0,
                                                CaughtMessage(out))
                             ELSE NoToast
                 /\ step' = Fail("executeQuery", CaughtMessage(out))
         /\ server' = IF Succeeded(out) THEN ServerAfterQuery(server) ELSE server
    /\ UNCHANGED <<fixedVars, trip, clicks, userVars, dataVars, uploadVars, currentSection,
                   queryInput>>

\* clearResults()
clearResults ==
    /\ Alive
    /\ resultsVisible' = FALSE
    /\ currentQuery' = NoResult
    /\ toast' = NoToast /\ step' = Step("clearResults", "done")
    /\ clicks' = Clicked
    /\ UNCHANGED <<envVars, userVars, dataVars, uploadVars, authModal, currentSection,
                   queryInput, executeBtn, net, unhandled>>

\* updateQueryDatasetsList(): PharmaQueryApp renders the checkboxes anew, unchecked;
\* AMINAApp renders a summary.
CheckboxesAfterRender == IF variant = "Pharma" THEN {} ELSE selected

\* A click on a successful entry of the rendered history: showQueryResult(queryId)
\* up to its await (AMINAApp).
showQueryResult ==
    /\ Alive /\ variant = "AMINA" /\ MayLoad
    /\ \E q \in queryHistory :
         /\ q.success
         /\ net' = Send([NoReq EXCEPT !.kind = "result", !.id = q.id])
    /\ toast' = NoToast /\ step' = Step("showQueryResult", "issued")
    /\ clicks' = Clicked
    /\ UNCHANGED <<envVars, userVars, dataVars, uploadVars, queryVars, authModal,
                   currentSection, unhandled>>

\* showQueryResult from the resumption of its await to its return; result is
\* response.result, NoResult when the body carries none.
showQueryResultResponse ==
    /\ Alive
    /\ \E req \in Pending("result"), out \in Outcomes :
         \E result \in IF Succeeded(out) THEN Results \cup {NoResult} ELSE {NoResult} :
         /\ net' = Receive(req)
         /\ authModal' = (authModal \/ out.hook)
         /\ unhandled' = (unhandled \/ (out.tag = "throw" /\ "showQueryResult" \notin TryCatch))
         /\ IF Succeeded(out) /\ result # NoResult
            THEN /\ currentSection' = "query"
                 /\ currentQuery' = result
                 /\ resultsVisible' = TRUE
                 /\ toast' = showToast("Showing results from history", "success")
                 /\ step' = Step("showQueryResult", "success")
            ELSE IF out.tag = "return"
            THEN /\ toast' = showToast("Query result viewing is not available for this query",
                                       "info")
                 /\ step' = Step("showQueryResult", "unavailable")
                 /\ UNCHANGED <<currentSection, currentQuery, resultsVisible>>
            ELSE /\ toast' = IF "showQueryResult" \in TryCatch
                             THEN showToast("Failed to load query result", "error")
                             ELSE NoToast
                 /\ step' = Fail("showQueryResult", out.message)
                 /\ UNCHANGED <<currentSection, currentQuery, resultsVisible>>
    /\ UNCHANGED <<envVars, clicks, userVars, dataVars, uploadVars, queryInput, executeBtn>>

-----------------------------------------------------------------------------
(* Dataset list and history: loadSharedDatasets / loadDatasets, loadQueryHistory,
   switchSection *)

\* AMINAApp asks the admin endpoint when this.currentUser?.is_admin.
IsAdmin == variant = "AMINA" /\ currentUser = "admin"

ListReq(cause, b, k) ==
    [NoReq EXCEPT !.kind = "list", !.cause = cause, !.batch = b, !.file = k,
                  !.admin = IsAdmin]
HistoryReq(cause) == [NoReq EXCEPT !.kind = "history", !.cause = cause]

\* updateDashboard(): #totalQueries shows this.queryHistory.length
updateDashboard(history) == [views EXCEPT !.totalQueries = Cardinality(history)]

\* The calls of updateDashboard() at the end of a load: AMINAApp's loads call it
\* when they succeed; PharmaQueryApp's loadInitialData calls it once both of its
\* loads have returned.
TotalAfterLoad(req, succeeded, history) ==
    IF variant = "AMINA"
    THEN IF succeeded THEN Cardinality(history) ELSE views.totalQueries
    ELSE IF req.cause = "init" /\ ~\E r \in BagToSet(Receive(req)) : r.cause = "init"
         THEN Cardinality(history)
         ELSE views.totalQueries

\* UI.showLoading('datasetsList')
Loading == [views EXCEPT !.datasetsList = "loading"]

\* A click on #refreshDatasets: loadSharedDatasets() / loadDatasets() up to the await.
refreshDatasets ==
    /\ Alive /\ MayLoad
    /\ views' = Loading
    /\ net' = Send(ListReq("none", 0, 0))
    /\ toast' = NoToast /\ step' = Step("loadDatasets", "issued")
    /\ clicks' = Clicked
    /\ UNCHANGED <<envVars, userVars, uploadVars, queryVars, authModal, currentSection,
                   datasets, selected, queryHistory, unhandled>>

\* A click on #refreshHistory: loadQueryHistory() up to the await.
refreshHistory ==
    /\ Alive /\ MayLoad
    /\ net' = Send(HistoryReq("none"))
    /\ toast' = NoToast
    /\ step' = Step("loadQueryHistory", "issued")
    /\ clicks' = Clicked
    /\ UNCHANGED <<envVars, userVars, dataVars, uploadVars, queryVars, authModal,
                   currentSection, unhandled>>

SectionAfterSwitch_Dashboard(sectionName) == "dashboard"

\* this.currentSection = sectionName
SectionAfterSwitch(sectionName) == sectionName

\* A click on a navigation item: switchSection(sectionName) with its on-enter load.
switchSection ==
    /\ Alive /\ MayLoad
    /\ \E sectionName \in Sections :
         /\ currentSection' = SectionAfterSwitch(sectionName)
         /\ step' = Step("switchSection", sectionName)
         /\ CASE sectionName = "datasets" ->
                   /\ views' = Loading
                   /\ net' = Send(ListReq("none", 0, 0))
                   /\ UNCHANGED selected
              [] sectionName = "query" ->
                   /\ selected' = CheckboxesAfterRender
                   /\ UNCHANGED <<views, net>>
              [] sectionName = "history" ->
                   /\ net' = Send(HistoryReq("none"))
                   /\ UNCHANGED <<views, selected>>
              [] sectionName = "dashboard" ->
                   IF variant = "AMINA"
                   THEN /\ views' = Loading
                        /\ net' = net (+) SetToBag({ListReq("dashboard", 0, 0),
                                                    HistoryReq("dashboard")})
                        /\ UNCHANGED selected
                   ELSE /\ views' = updateDashboard(queryHistory)
                        /\ UNCHANGED <<net, selected>>
    /\ toast' = NoToast
    /\ clicks' = Clicked
    /\ UNCHANGED <<envVars, userVars, uploadVars, queryVars, authModal, datasets,
                   queryHistory, unhandled>>

\* loadQueryHistory from the resumption of its await to its return: the list is
\* replaced wholesale; a failure is shown as a placeholder of #historyList.
loadQueryHistoryResponse ==
    /\ Alive
    /\ \E req \in Pending("history"), out \in Outcomes :
         \E history \in IF Succeeded(out) THEN {server.history} ELSE {queryHistory} :
         /\ net' = Receive(req)
         /\ authModal' = (authModal \/ out.hook)
         /\ unhandled' = (unhandled \/ Escapes("loadQueryHistory", out))
         /\ toast' = NoToast
         /\ queryHistory' = history
         /\ views' = [views EXCEPT
                        !.historyList = IF Succeeded(out) THEN "list"
                                        ELSE IF Caught("loadQueryHistory", out)
                                        THEN "error" ELSE @,
                        !.totalQueries = TotalAfterLoad(req, Succeeded(out), history)]
         /\ step' = IF Succeeded(out) THEN Step("loadQueryHistory", "success")
                    ELSE Fail("loadQueryHistory", CaughtMessage(out))
    /\ UNCHANGED <<envVars, clicks, userVars, uploadVars, queryVars, currentSection, datasets,
                   selected>>

-----------------------------------------------------------------------------
(* Upload: handleFileSelect, uploadFile *)

BatchIds == 1..MaxBatches

UploadReq(b, k) ==
    [NoReq EXCEPT !.kind = "upload", !.batch = b, !.file = k, !.admin = IsAdmin]

HasNext_SkipsLast(bt) == bt.pos + 1 < bt.n

\* for (const file of files): another file follows the one just processed
HasNext(bt) == bt.pos < bt.n

UploadCatchRethrows_Yes == TRUE

\* catch (error) of uploadFile reports the failure and returns normally
UploadCatchRethrows == FALSE

\* uploadFile up to its await: the indicator is shown and the request is sent.
\* const progressInterval = setInterval(..., 200) is running from here on: the
\* timer is named by the file it was started for (two timers started for the
\* same position of the same invocation are not told apart).
ShowProgress(prog, b, k) ==
    [prog EXCEPT !.visible = TRUE, !.status = "Uploading", !.width = 0,
                 !.intervals = @ \cup {<<b, k>>}]

ClearsInterval_Always(out) == TRUE

\* clearInterval(progressInterval) comes after the await of the request: it runs
\* when the request returned a body, not when the await threw.
ClearsInterval(out) == out.tag = "return"

\* uploadFile from the resumption of its await to the test of response.success
AfterRequest(prog, b, k, out) ==
    IF ClearsInterval(out)
    THEN [prog EXCEPT !.intervals = @ \ {<<b, k>>}, !.width = 100]
    ELSE prog

\* handleFileSelect goes on after uploadFile returned for file bs[b].pos of batch b:
\* the next file starts, or the file input is cleared and the invocation ends.
AfterFile(b, bs, net0, prog) ==
    IF HasNext(bs[b])
    THEN /\ batches' = [bs EXCEPT ![b].pos = bs[b].pos + 1, ![b].phase = "upload"]
         /\ net' = net0 (+) SetToBag({UploadReq(b, bs[b].pos + 1)})
         /\ progress' = ShowProgress(prog, b, bs[b].pos + 1)
         /\ UNCHANGED fileInput
    ELSE /\ batches' = [bs EXCEPT ![b] = IdleBatch]
         /\ net' = net0
         /\ progress' = prog
         /\ fileInput' = ""

\* A change event of #fileInput or a drop on #uploadArea with n files:
\* handleFileSelect(event) up to the await of the first uploadFile.
handleFileSelect ==
    /\ Alive
    /\ \E b \in BatchIds, n \in 0..MaxFiles, source \in {"change", "drop"} :
         /\ batches[b].phase = "idle"
         /\ \A c \in BatchIds : c < b => batches[c].phase # "idle"
         /\ IF n = 0
            THEN /\ fileInput' = ""
                 /\ UNCHANGED <<batches, net, progress>>
            ELSE /\ batches' = [batches EXCEPT ![b] = [n |-> n, pos |-> 1,
                                                       phase |-> "upload", failed |-> {}]]
                 /\ net' = Send(UploadReq(b, 1))
                 /\ progress' = ShowProgress(progress, b, 1)
                 /\ fileInput' = IF source = "change" THEN "chosen" ELSE fileInput
         /\ step' = StepFile("handleFileSelect", source, b, n)
    /\ toast' = NoToast
    /\ clicks' = Clicked
    /\ UNCHANGED <<envVars, userVars, dataVars, queryVars, authModal, currentSection,
                   unhandled>>

\* uploadFile from the resumption of its await: on success the dataset list is
\* reloaded (awaited); on failure the catch reports it, schedules the hide of the
\* indicator and handleFileSelect goes on with the next file.
uploadFileResponse ==
    /\ Alive
    /\ \E req \in Pending("upload"), out \in Outcomes :
         LET b == req.batch
             k == req.file
         IN
         /\ Succeeded(out) => FreeDatasetIds(server) # {}
         /\ server' = IF Succeeded(out) THEN ServerAfterUpload(server) ELSE server
         /\ trip' = IF Succeeded(out) THEN TripAfterUpload(server, datasets) ELSE trip
         /\ authModal' = (authModal \/ out.hook)
         /\ IF Succeeded(out)
            THEN /\ toast' = showToastFile("Successfully uploaded", "success", k, "")
                 /\ step' = StepFile("uploadFile", "success", b, k)
                 /\ progress' = [AfterRequest(progress, b, k, out)
                                   EXCEPT !.status = "Upload successful!"]
                 /\ views' = Loading
                 /\ net' = Receive(req) (+) SetToBag({ListReq("upload", b, k)})
                 /\ batches' = [batches EXCEPT ![b].phase = "reload"]
                 /\ UNCHANGED <<fileInput, unhandled>>
            ELSE /\ toast' = showToastFile("Failed to upload", "error", k,
                                           CaughtMessage(out))
                 /\ step' = FailFile("uploadFile", b, k, CaughtMessage(out))
                 /\ UNCHANGED views
                 /\ LET bs == [batches EXCEPT ![b].failed = @ \cup {k}]
                        prog == [AfterRequest(progress, b, k, out)
                                   EXCEPT !.status = "Upload failed",
                                          !.hidePending = TRUE]
                    IN IF UploadCatchRethrows
                       THEN /\ batches' = [bs EXCEPT ![b].phase = "aborted"]
                            /\ net' = Receive(req)
                            /\ progress' = prog
                            /\ unhandled' = TRUE
                            /\ UNCHANGED fileInput
                       ELSE /\ AfterFile(b, bs, Receive(req), prog)
                            /\ UNCHANGED unhandled
    /\ UNCHANGED <<fixedVars, clicks, userVars, queryVars, currentSection, datasets, selected,
                   queryHistory>>

ListAfterLoad_Merged(old, list) == old \cup list

\* this.datasets = response.datasets
ListAfterLoad(old, list) == list

\* The server serves a list request: the list it stores now travels back.
serveList ==
    /\ \E req \in Pending("list") :
         /\ ~req.served
         /\ net' = Receive(req)
                   (+) SetToBag({[req EXCEPT !.served = TRUE,
                                             !.reply = server.datasets]})
    /\ UNCHANGED <<envVars, userVars, dataVars, uploadVars, queryVars, authModal,
                   currentSection, toast, unhandled, clicks, step>>

\* loadSharedDatasets / loadDatasets from the resumption of its await to its return,
\* and what its awaiting caller does next: uploadFile schedules the hide of the
\* indicator and handleFileSelect goes on with the next file.
loadDatasetsResponse ==
    /\ Alive
    /\ \E req \in Pending("list"), out \in Outcomes :
         \E list \in IF Succeeded(out) THEN {ListReturned(req, server)} ELSE {datasets} :
         /\ authModal' = (authModal \/ out.hook)
         /\ unhandled' = (unhandled \/ Escapes("loadDatasets", out))
         /\ views' = [views EXCEPT
                        !.datasetsList = IF Succeeded(out) THEN "list"
                                         ELSE IF Caught("loadDatasets", out)
                                         THEN "error" ELSE @,
                        !.totalQueries = TotalAfterLoad(req, Succeeded(out), queryHistory)]
         /\ IF Succeeded(out)
            THEN /\ datasets' = ListAfterLoad(datasets, list)
                 /\ selected' = CheckboxesAfterRender
                 /\ toast' = NoToast
                 /\ step' = StepFile("loadDatasets", "success", req.batch, req.file)
            ELSE /\ toast' = IF Caught("loadDatasets", out)
                             THEN showToast("Failed to load datasets", "error")
                             ELSE NoToast
                 /\ step' = FailFile("loadDatasets", req.batch, req.file,
                                     CaughtMessage(out))
                 /\ UNCHANGED <<datasets, selected>>
         /\ IF req.cause = "upload"
            THEN AfterFile(req.batch, batches, Receive(req),
                           [progress EXCEPT !.hidePending = TRUE])
            ELSE /\ net' = Receive(req)
                 /\ UNCHANGED uploadVars
    /\ UNCHANGED <<envVars, clicks, userVars, queryVars, currentSection, queryHistory>>

\* A tick of a progress timer: the width grows by 10 while it is below 90.
progressTick ==
    /\ Alive
    /\ \E i \in progress.intervals :
         /\ progress' = [progress EXCEPT
                            !.width = IF @ < 90 THEN @ + 10 ELSE @]
         /\ step' = StepFile("progressTick", "tick", i[1], i[2])
    /\ toast' = NoToast
    /\ UNCHANGED <<envVars, clicks, userVars, dataVars, queryVars, authModal, currentSection,
                   net, batches, fileInput, unhandled>>

\* The timer of setTimeout(() => progressContainer.style.display = 'none', ...)
\* fires; further hides may remain scheduled.
hideProgress ==
    /\ Alive /\ progress.hidePending
    /\ \E more \in BOOLEAN :
         progress' = [progress EXCEPT !.visible = FALSE, !.hidePending = more]
    /\ toast' = NoToast /\ step' = Step("hideProgress", "done")
    /\ UNCHANGED <<envVars, clicks, userVars, dataVars, queryVars, authModal, currentSection,
                   net, batches, fileInput, unhandled>>

-----------------------------------------------------------------------------
(* Dataset operations: preview, statistics, rename, delete *)

Ids(list) == {d.id : d \in list}
NameOf(list, id) == (CHOOSE d \in list : d.id = id).name

\* What prompt() returns: null when cancelled, else the text entered.
PromptAnswers ==
    {[cancelled |-> TRUE, text |-> <<>>]}
    \cup {[cancelled |-> FALSE, text |-> t]
            : t \in UNION {[1..n -> NameChars] : n \in 0..MaxNameLen}}

\* A click on the preview or statistics button of a listed dataset:
\* previewDataset(datasetId) / showDatasetStats(datasetId) up to the await.
previewDataset ==
    /\ Alive /\ MayLoad
    /\ \E d \in datasets, kind \in {"preview", "stats"} :
         /\ net' = Send([NoReq EXCEPT !.kind = kind, !.id = d.id])
         /\ step' = Step(IF kind = "preview" THEN "previewDataset" ELSE "showDatasetStats",
                         "issued")
    /\ toast' = NoToast
    /\ clicks' = Clicked
    /\ UNCHANGED <<envVars, userVars, dataVars, uploadVars, queryVars, authModal,
                   currentSection, unhandled>>

\* previewDataset / showDatasetStats from the resumption of the await: the modal is
\* rendered from the dataset found in the local list now; rendering a dataset that
\* is no longer listed throws inside the try.
previewDatasetResponse ==
    /\ Alive
    /\ \E req \in Pending("preview") \cup Pending("stats"), out \in Outcomes :
         LET op == IF req.kind = "preview" THEN "previewDataset" ELSE "showDatasetStats"
             rendered == Succeeded(out) /\ req.id \in Ids(datasets)
         IN
         /\ net' = Receive(req)
         /\ authModal' = (authModal \/ out.hook)
         /\ unhandled' = (unhandled \/ (~rendered /\ op \notin TryCatch))
         /\ IF rendered
            THEN /\ views' = [views EXCEPT !.modal = req.kind]
                 /\ toast' = NoToast
                 /\ step' = Step(op, "success")
            ELSE /\ toast' = IF op \notin TryCatch THEN NoToast
                             ELSE IF req.kind = "preview"
                             THEN showToast("Failed to load dataset preview", "error")
                             ELSE showToast("Failed to load dataset statistics", "error")
                 /\ step' = Fail(op, IF Succeeded(out) THEN RenderErrorMsg
                                        ELSE CaughtMessage(out))
                 /\ UNCHANGED views
    /\ UNCHANGED <<envVars, clicks, userVars, uploadVars, queryVars, currentSection, datasets,
                   selected, queryHistory>>

\* closeModal()
closeModal ==
    /\ Alive /\ views.modal # "none"
    /\ views' = [views EXCEPT !.modal = "none"]
    /\ toast' = NoToast /\ step' = Step("closeModal", "done")
    /\ clicks' = Clicked
    /\ UNCHANGED <<envVars, userVars, uploadVars, queryVars, authModal, currentSection,
                   datasets, selected, queryHistory, net, unhandled>>

\* The name a rename sends, if it sends one.
\* PharmaQueryApp.renameDataset: if (newName && newName !== dataset.name), untrimmed;
\* AMINAApp.renameSharedDataset: admins only, blank names refused, sent trimmed.
RenameSends(answer, current) ==
    IF variant = "Pharma"
    THEN ~answer.cancelled /\ answer.text # <<>> /\ answer.text # current
    ELSE /\ currentUser = "admin"
         /\ ~answer.cancelled /\ answer.text # <<>>
         /\ Trim(answer.text) # <<>> /\ answer.text # current

RenameName_Entered(answer) == answer.text

\* The name sent: newName (PharmaQueryApp), newName.trim() (AMINAApp)
RenameName(answer) == IF variant = "Pharma" THEN answer.text ELSE Trim(answer.text)

\* A click on the rename button of a listed dataset, and the answer to the prompt:
\* renameDataset / renameSharedDataset up to the await.
renameDataset ==
    /\ Alive /\ MayLoad
    /\ \E d \in datasets, answer \in PromptAnswers :
         IF RenameSends(answer, d.name)
         THEN /\ net' = Send([NoReq EXCEPT !.kind = "rename", !.id = d.id,
                                          !.name = RenameName(answer),
                                          !.text = answer.text])
              /\ step' = Step("renameDataset", "issued")
         ELSE /\ step' = Step("renameDataset", "skipped")
              /\ UNCHANGED net
    /\ toast' = NoToast
    /\ clicks' = Clicked
    /\ UNCHANGED <<envVars, userVars, dataVars, uploadVars, queryVars, authModal,
                   currentSection, unhandled>>

\* A click on the delete button of a listed dataset, and the answer to confirm():
\* deleteDataset / deleteSharedDataset up to the await.
deleteDataset ==
    /\ Alive /\ MayLoad
    /\ \E d \in datasets, confirmed \in BOOLEAN :
         IF confirmed /\ (variant = "Pharma" \/ currentUser = "admin")
         THEN /\ net' = Send([NoReq EXCEPT !.kind = "delete", !.id = d.id])
              /\ step' = Step("deleteDataset", "issued")
         ELSE /\ step' = Step("deleteDataset", "skipped")
              /\ UNCHANGED net
    /\ toast' = NoToast
    /\ clicks' = Clicked
    /\ UNCHANGED <<envVars, userVars, dataVars, uploadVars, queryVars, authModal,
                   currentSection, unhandled>>

\* A call of AMINAApp.renameDataset(datasetId) for a listed dataset, up to its
\* await (no control of the page calls it; it is a method of window.app): no
\* test of the user, if (newName && newName !== dataset.name), the name untrimmed.
AMINAApp_renameDataset ==
    /\ Alive /\ MayLoad
    /\ variant = "AMINA"
    /\ \E d \in datasets, answer \in PromptAnswers :
         IF ~answer.cancelled /\ answer.text # <<>> /\ answer.text # d.name
         THEN /\ net' = Send([NoReq EXCEPT !.kind = "rename", !.id = d.id,
                                          !.name = answer.text,
                                          !.text = answer.text])
              /\ step' = Step("AMINAApp.renameDataset", "issued")
         ELSE /\ step' = Step("AMINAApp.renameDataset", "skipped")
              /\ UNCHANGED net
    /\ toast' = NoToast
    /\ clicks' = Clicked
    /\ UNCHANGED <<envVars, userVars, dataVars, uploadVars, queryVars, authModal,
                   currentSection, unhandled>>

\* rename / delete from the resumption of the await: on success the dataset list
\* is reloaded (awaited, nothing follows it); on failure the catch shows a toast.
changeDatasetResponse ==
    /\ Alive
    /\ \E req \in Pending("rename") \cup Pending("delete"), out \in Outcomes :
         LET op == IF req.kind = "rename" THEN "renameDataset" ELSE "deleteDataset"
         IN
         /\ Succeeded(out) => Stored(server, req.id)
         /\ authModal' = (authModal \/ out.hook)
         /\ unhandled' = (unhandled \/ Escapes(op, out))
         /\ IF Succeeded(out)
            THEN /\ toast' = showToast(IF req.kind = "rename"
                                       THEN "Dataset renamed successfully"
                                       ELSE "Dataset deleted successfully", "success")
                 /\ views' = Loading
                 /\ net' = Receive(req)
                            (+) SetToBag({[ListReq(req.kind, 0, 0) EXCEPT
                                             !.id = req.id, !.text = req.text]})
                 /\ step' = Step(op, "success")
            ELSE /\ toast' = IF ~Caught(op, out) THEN NoToast
                             ELSE IF req.kind = "rename"
                             THEN showToast("Failed to rename dataset", "error")
                             ELSE showToast("Failed to delete dataset", "error")
                 /\ net' = Receive(req)
                 /\ step' = Fail(op, CaughtMessage(out))
                 /\ UNCHANGED views
         /\ server' = IF ~Succeeded(out) THEN server
                      ELSE IF req.kind = "rename"
                      THEN ServerAfterRename(server, req.id, req.name)
                      ELSE ServerAfterDelete(server, req.id)
         /\ trip' = IF Succeeded(out) /\ req.kind = "delete"
                    THEN TripAfterDelete(trip, req.id)
                    ELSE trip
    /\ UNCHANGED <<fixedVars, clicks, userVars, uploadVars, queryVars, currentSection,
                   datasets, selected, queryHistory>>

-----------------------------------------------------------------------------
(* History clearing, logout and the user info of AMINAApp *)

ClearSends_Always(confirmed) == TRUE

\* if (!confirm(...)) return;
ClearSends(confirmed) == confirmed

\* A click on #clearHistory and the answer to confirm(): clearQueryHistory()
\* up to the await.
clearQueryHistory ==
    /\ Alive /\ variant = "AMINA" /\ MayLoad
    /\ \E confirmed \in BOOLEAN :
         /\ net' = IF ClearSends(confirmed)
                   THEN Send([NoReq EXCEPT !.kind = "clearHistory"])
                   ELSE net
         /\ step' = Step("clearQueryHistory", IF confirmed THEN "issued" ELSE "declined")
    /\ toast' = NoToast
    /\ clicks' = Clicked
    /\ UNCHANGED <<envVars, userVars, dataVars, uploadVars, queryVars, authModal,
                   currentSection, unhandled>>

\* clearQueryHistory from the resumption of the await: on success the history is
\* reloaded (awaited, nothing follows it).
clearQueryHistoryResponse ==
    /\ Alive
    /\ \E req \in Pending("clearHistory"), out \in Outcomes :
         /\ authModal' = (authModal \/ out.hook)
         /\ unhandled' = (unhandled \/ Escapes("clearQueryHistory", out))
         /\ IF Succeeded(out)
            THEN /\ toast' = showToast("Query history cleared successfully", "success")
                 /\ net' = Receive(req) (+) SetToBag({HistoryReq("clearHistory")})
                 /\ step' = Step("clearQueryHistory", "success")
            ELSE /\ toast' = IF Caught("clearQueryHistory", out)
                             THEN showToast("Failed to clear query history", "error")
                             ELSE NoToast
                 /\ net' = Receive(req)
                 /\ step' = Fail("clearQueryHistory", CaughtMessage(out))
         /\ server' = IF Succeeded(out) THEN ServerAfterClear(server) ELSE server
    /\ UNCHANGED <<fixedVars, trip, clicks, userVars, dataVars, uploadVars, queryVars,
                   currentSection>>

\* A click on #logoutBtn: handleLogout() up to the await of its own fetch.
handleLogout ==
    /\ page = "app" /\ variant = "AMINA" /\ MayLoad
    /\ net' = Send([NoReq EXCEPT !.kind = "logout"])
    /\ toast' = NoToast /\ step' = Step("handleLogout", "issued")
    /\ clicks' = Clicked
    /\ UNCHANGED <<envVars, userVars, dataVars, uploadVars, queryVars, authModal,
                   currentSection, unhandled>>

\* handleLogout from the resumption of its fetch: the body is read without a status
\* check; a thrown error still logs the user out of the page.
handleLogoutResponse ==
    /\ Alive
    /\ \E req \in Pending("logout"), got \in FetchOutcomes :
         /\ net' = Receive(req)
         /\ unhandled' = (unhandled \/ (got.tag = "throw" /\ "handleLogout" \notin TryCatch))
         /\ IF Succeeded(got)
            THEN /\ toast' = showToast("Logged out successfully", "success")
                 /\ page' = "leaving"
                 /\ step' = Step("handleLogout", "success")
            ELSE IF got.tag = "return"
            THEN /\ toast' = showToast("Logout failed", "error")
                 /\ step' = Fail("handleLogout", got.data.error)
                 /\ UNCHANGED page
            ELSE /\ toast' = IF "handleLogout" \in TryCatch
                             THEN showToast("Logged out", "success") ELSE NoToast
                 /\ page' = IF "handleLogout" \in TryCatch THEN "leaving" ELSE page
                 /\ step' = Fail("handleLogout", got.message)
    /\ UNCHANGED <<envVars, clicks, currentUser, dataVars, uploadVars, queryVars, authModal,
                   currentSection>>

\* The timer of setTimeout(() => window.location.href = '/login', 1000) fires.
redirectToLogin ==
    /\ page = "leaving"
    /\ page' = "login"
    /\ toast' = NoToast /\ step' = Step("redirectToLogin", "done")
    /\ UNCHANGED <<envVars, clicks, currentUser, dataVars, uploadVars, queryVars, authModal,
                   currentSection, net, unhandled>>

\* loadInitialData of AMINAApp from the resumption of loadUserInfo's fetch: the
\* user is stored, configureUIForUserRole loads the datasets (not awaited), and
\* loadInitialData goes on to load datasets and history together.
loadUserInfoResponse ==
    /\ Alive
    /\ \E req \in Pending("me"), got \in FetchOutcomes :
         \E user \in IF Succeeded(got) THEN Users ELSE {"none"} :
         LET known == Succeeded(got) /\ user # "none"
             admin == known /\ user = "admin"
         IN
         /\ currentUser' = IF known THEN user ELSE currentUser
         /\ net' = Receive(req)
                   (+) (IF known
                        THEN SetToBag({[ListReq("none", 0, 0) EXCEPT !.admin = admin]})
                        ELSE EmptyBag)
                   (+) SetToBag({[ListReq("init", 0, 0) EXCEPT !.admin = admin],
                                 HistoryReq("init")})
         /\ views' = Loading
         /\ step' = Step("loadUserInfo", IF known THEN "success" ELSE "failed")
    /\ toast' = NoToast
    /\ UNCHANGED <<envVars, clicks, page, uploadVars, queryVars, authModal, currentSection,
                   datasets, selected, queryHistory, unhandled>>

-----------------------------------------------------------------------------
(* Result rendering: renderQueryResults and the deferred renderVisualization *)

\* The ids of the containers in #resultsContent.
ContainerIds(blocks) == {blocks[i].id : i \in 1..Len(blocks)}

\* renderQueryResults(result), called by executeQuery and showQueryResult with the
\* result of a successful response: #resultsContent is replaced; PharmaQueryApp
\* defers the rendering of each visualization by a timer.
renderQueryResults ==
    /\ Alive /\ content.render < MaxRenders
    /\ LET n == content.render + 1
           viz == queryResult.visualizations
       IN
       /\ content' = [render |-> n,
                      visualizations |->
                          [i \in 1..Len(viz) |-> VizBlock(variant, viz[i], i - 1, now, n)],
                      tables |-> TableBlocks(variant, queryResult.data_tables),
                      issued |-> content.issued
                                  \cup (ContainerIds(content.visualizations) \ {NoId})]
       /\ timers' = IF variant = "Pharma"
                    THEN timers \o [i \in 1..Len(viz) |->
                                       [id |-> VizId(now, i - 1), viz |-> viz[i],
                                        render |-> n, at |-> now]]
                    ELSE timers
    /\ toast' = NoToast /\ step' = Step("renderQueryResults", "done")
    /\ UNCHANGED <<variant, authManager, apiCall, exportCall, login, toastVars, server,
                   trip, userVars, dataVars, uploadVars, queryVars, authModal,
                   currentSection, net, unhandled, clicks, queryResult, now>>

\* document.getElementById(containerId): the position of the first block with
\* that id, 0 when there is none.
GetElementById(blocks, id) ==
    IF \E i \in 1..Len(blocks) : blocks[i].id = id
    THEN CHOOSE i \in 1..Len(blocks) :
             blocks[i].id = id /\ \A j \in 1..(i - 1) : blocks[j].id # id
    ELSE 0

\* The callback of setTimeout(..., 100) in renderVisualization(viz, containerId):
\* the oldest timer fires, some time after it was set.
renderVisualization ==
    /\ Alive /\ timers # <<>> /\ now > Head(timers).at
    /\ LET t == Head(timers)
           k == GetElementById(content.visualizations, t.id)
       IN
       /\ timers' = Tail(timers)
       /\ IF k = 0
          THEN /\ content' = content
               /\ step' = Step("renderVisualization", "no container")
          ELSE /\ content' = [content EXCEPT
                                 !.visualizations[k].body = ByShape(t.viz),
                                 !.visualizations[k].filledBy = t.render]
               /\ step' = Step("renderVisualization", "done")
    /\ toast' = NoToast
    /\ UNCHANGED <<variant, authManager, apiCall, exportCall, login, toastVars, server,
                   trip, userVars, dataVars, uploadVars, queryVars, authModal,
                   currentSection, net, unhandled, clicks, queryResult, now>>

\* Time passes: Date.now() returns more than before.
tick ==
    /\ now < MaxClock
    /\ now' = now + 1
    /\ UNCHANGED <<variant, authManager, apiCall, exportCall, login, toastVars, server,
                   trip, userVars, dataVars, uploadVars, queryVars, authModal,
                   currentSection, net, unhandled, clicks, queryResult, content, timers,
                   toast, step>>

-----------------------------------------------------------------------------
(* The page after construction, and the specification of the controllers *)

NoCall ==
    [resp |-> [type |-> "none", message |-> "", status |-> 0, json |-> FALSE,
               body |-> NoBody],
     out |-> [tag |-> "none", data |-> NoBody, name |-> "", message |-> "",
              hook |-> FALSE]]

\* new AMINAApp(): init() has called loadInitialData(), whose loadUserInfo() awaits
\* /api/auth/me.  new PharmaQueryApp(): loadInitialData() has asked for the
\* datasets and the history, and switchSection('dashboard') has run.
Init ==
    /\ variant \in Variants
    /\ authManager \in BOOLEAN
    /\ authModal = FALSE
    /\ apiCall = NoCall
    /\ exportCall = NoCall
    /\ page = "app"
    /\ currentUser = "none"
    /\ currentSection = "dashboard"
    /\ datasets = {}
    /\ selected = {}
    /\ queryHistory = {}
    /\ currentQuery = NoResult
    /\ queryInput = <<>>
    /\ executeBtn = [disabled |-> FALSE, label |-> "Execute Query"]
    /\ resultsVisible = FALSE
    /\ views = [datasetsList |-> IF variant = "AMINA" THEN "list" ELSE "loading",
                historyList |-> "list", modal |-> "none", totalQueries |-> 0]
    /\ server \in [datasets : DatasetLists, history : HistoryLists]
    /\ trip = NoTrip
    /\ login = NoForm
    /\ net = IF variant = "AMINA"
             THEN SetToBag({[NoReq EXCEPT !.kind = "me"]})
             ELSE SetToBag({[NoReq EXCEPT !.kind = "list", !.cause = "init"],
                            HistoryReq("init")})
    /\ batches = [b \in BatchIds |-> IdleBatch]
    /\ fileInput = ""
    /\ progress = NoProgress
    /\ toast = NoToast
    /\ unhandled = FALSE
    /\ clicks = 0
    /\ step = Step("init", "done")
    /\ NothingRendered /\ NoNotices

Next ==
    \/ setQueryInput
    \/ toggleDatasetSelection
    \/ executeQuery
    \/ executeQueryResponse
    \/ clearResults
    \/ showQueryResult
    \/ showQueryResultResponse
    \/ refreshDatasets
    \/ refreshHistory
    \/ switchSection
    \/ loadQueryHistoryResponse
    \/ loadDatasetsResponse
    \/ handleFileSelect
    \/ uploadFileResponse
    \/ hideProgress
    \/ previewDataset
    \/ previewDatasetResponse
    \/ closeModal
    \/ renameDataset
    \/ deleteDataset
    \/ changeDatasetResponse
    \/ clearQueryHistory
    \/ clearQueryHistoryResponse
    \/ handleLogout
    \/ handleLogoutResponse
    \/ redirectToLogin
    \/ loadUserInfoResponse
    \/ serveList
    \/ progressTick
    \/ AMINAApp_renameDataset
    \/ renderQueryResults
    \/ renderVisualization
    \/ tick

Spec == Init /\ [][Next]_vars

-----------------------------------------------------------------------------
(* The gateway on its own: API.request applied to every response *)

\* One call of API.request(endpoint, options) and the response fetch delivers.
callRequest ==
    /\ \E resp \in Responses :
         LET out == request(variant, resp, authManager) IN
         /\ apiCall' = [resp |-> resp, out |-> out]
         /\ authModal' = (authModal \/ out.hook)
    /\ UNCHANGED <<variant, authManager, exportCall, login, domVars, server, trip, userVars,
                   dataVars, uploadVars,
                   queryVars, currentSection, net, toast, unhandled, step, clicks>>

SpecApi == Init /\ [][callRequest]_vars

\* One call of API.exportResults(resultId, format) and the response fetch delivers.
callExport ==
    /\ \E resp \in Responses :
         LET out == exportResults(variant, resp, authManager) IN
         /\ exportCall' = [resp |-> resp, out |-> out]
         /\ authModal' = (authModal \/ out.hook)
    /\ UNCHANGED <<variant, authManager, apiCall, login, domVars, server, trip, userVars,
                   dataVars,
                   uploadVars,
                   queryVars, currentSection, net, toast, unhandled, step, clicks>>

\* Both paths of the gateway: the JSON path and the download path.
NextGateway ==
    \/ callRequest
    \/ callExport

SpecGateway == Init /\ [][NextGateway]_vars

-----------------------------------------------------------------------------
(* The query lifecycle on its own: startup, the query box, executeQuery,
   clearResults and the replay of a history entry *)

\* The page once its initial load has finished: the user, the datasets and the
\* history are whatever the server returned, and no request is outstanding.  The
\* user events are counted from here, or are not counted (the count is at its cap).
LoadedApp ==
    /\ variant \in Variants
    /\ authManager \in (IF variant = "AMINA" THEN BOOLEAN ELSE {FALSE})
    /\ authModal = FALSE
    /\ apiCall = NoCall
    /\ exportCall = NoCall
    /\ page = "app"
    /\ currentUser \in (IF variant = "AMINA" THEN Users ELSE {"none"})
    /\ currentSection = "dashboard"
    /\ datasets \in DatasetLists
    /\ selected = {}
    /\ queryHistory \in HistoryLists
    /\ currentQuery = NoResult
    /\ queryInput = <<>>
    /\ executeBtn = [disabled |-> FALSE, label |-> "Execute Query"]
    /\ resultsVisible = FALSE
    /\ views = [datasetsList |-> "list", historyList |-> "list", modal |-> "none",
                totalQueries |-> Cardinality(queryHistory)]
    /\ server = [datasets |-> datasets, history |-> queryHistory]
    /\ trip = NoTrip
    /\ login = NoForm
    /\ net = EmptyBag
    /\ batches = [b \in BatchIds |-> IdleBatch]
    /\ fileInput = ""
    /\ progress = NoProgress
    /\ toast = NoToast
    /\ unhandled = FALSE
    /\ clicks \in {0, MaxClicks}
    /\ step = Step("init", "done")

\* The loaded page before any result is rendered and any toast shown.
Loaded == LoadedApp /\ NothingRendered /\ NoNotices

\* The loaded page as the query handlers see it: any list of datasets, a history
\* with an entry to replay, a signed-in user (they do not read it) and no
\* window.authManager (no source file defines one); the user events are not
\* counted.
LoadedQuery ==
    /\ Loaded
    /\ clicks = MaxClicks
    /\ ~authManager
    /\ variant = "AMINA" => currentUser = "user"
    /\ queryHistory = {[id |-> 1, success |-> TRUE]}

NextQuery ==
    \/ setQueryInput
    \/ toggleDatasetSelection
    \/ executeQuery
    \/ executeQueryResponse
    \/ clearResults
    \/ showQueryResult
    \/ showQueryResultResponse

SpecQuery == LoadedQuery /\ [][NextQuery]_vars

-----------------------------------------------------------------------------
(* The upload lifecycle on its own: drops and selections, their uploads, the
   reloads that follow them and the timers that hide the indicator *)

\* The loaded page of a signed-in user before the first upload: no dataset yet, an
\* empty history (the upload handlers never read it), and no window.authManager
\* (the sources define none).
LoadedUpload ==
    /\ Loaded
    /\ clicks = MaxClicks
    /\ datasets = {} /\ queryHistory = {}
    /\ ~authManager
    /\ variant = "AMINA" => currentUser # "none"

NextUpload ==
    \/ handleFileSelect
    \/ uploadFileResponse
    \/ loadDatasetsResponse
    \/ hideProgress

SpecUpload == LoadedUpload /\ [][NextUpload]_vars

-----------------------------------------------------------------------------
(* All the operations of a loaded page, for every sequence of MaxClicks user
   events and every order of the responses to their requests *)

\* The loaded page with a dataset listed and a replayable history entry, so that
\* every operation has something to act on.
LoadedOps ==
    /\ Loaded
    /\ clicks = 0
    /\ datasets = {[id |-> 1, name |-> <<"a">>]}
    /\ queryHistory = {[id |-> 1, success |-> TRUE]}

NextOps ==
    \/ Budget /\ setQueryInput
    \/ Budget /\ toggleDatasetSelection
    \/ Budget /\ executeQuery
    \/ executeQueryResponse
    \/ Budget /\ clearResults
    \/ Budget /\ showQueryResult
    \/ showQueryResultResponse
    \/ Budget /\ refreshDatasets
    \/ Budget /\ refreshHistory
    \/ Budget /\ switchSection
    \/ loadQueryHistoryResponse
    \/ loadDatasetsResponse
    \/ Budget /\ MayLoad /\ handleFileSelect
    \/ uploadFileResponse
    \/ hideProgress
    \/ Budget /\ previewDataset
    \/ previewDatasetResponse
    \/ Budget /\ closeModal
    \/ Budget /\ renameDataset
    \/ Budget /\ deleteDataset
    \/ changeDatasetResponse
    \/ Budget /\ clearQueryHistory
    \/ clearQueryHistoryResponse
    \/ Budget /\ handleLogout
    \/ handleLogoutResponse
    \/ redirectToLogin

SpecOps == LoadedOps /\ [][NextOps]_vars

-----------------------------------------------------------------------------
(* Query execution: validation, single flight, the button, the cached result *)

QueryReq == [NoReq EXCEPT !.kind = "query"]

\* C1: a call of executeQuery sends the query request exactly when the query box
\* holds a character that is not white space and a dataset is available
\* (AMINAApp: a dataset listed; PharmaQueryApp: a checkbox checked); otherwise it
\* shows a warning toast, sends nothing and leaves the button, the results
\* container and currentQuery as they were.
C1_QueryValidation ==
    [][(step'.op = "executeQuery" /\ step'.ev \in {"issued", "rejected"}) =>
         IF /\ \E i \in DOMAIN queryInput : queryInput[i] # " "
            /\ IF variant = "AMINA" THEN datasets # {} ELSE selected # {}
         THEN /\ step'.ev = "issued"
              /\ net' = net (+) SetToBag({QueryReq})
         ELSE /\ step'.ev = "rejected"
              /\ toast'.type = "warning"
              /\ UNCHANGED <<net, executeBtn, resultsVisible, currentQuery>>]_vars

\* A query of white space only has just been refused.
C1_Witness ==
    /\ step.op = "executeQuery" /\ step.ev = "rejected"
    /\ queryInput # <<>>
    /\ ~(IF variant = "AMINA" THEN datasets = {} ELSE selected = {})
    /\ toast.type = "warning"

\* C2: at most one query request of executeQuery is outstanding, and the execute
\* button is disabled for as long as it is.
C2_SingleFlight ==
    /\ CopiesIn(QueryReq, net) <= 1
    /\ CopiesIn(QueryReq, net) = 1 => executeBtn.disabled

\* The user edits the query box while the request of an earlier click is outstanding.
C2_Witness ==
    /\ BagIn(QueryReq, net)
    /\ executeBtn.disabled
    /\ step.op = "setQueryInput"

\* C3: when an executeQuery that passed validation ends, on success, on declared
\* failure and on a thrown request error alike, the button is enabled and labelled
\* 'Execute Query'.
C3_ButtonRestored ==
    (step.op = "executeQuery" /\ step.ev \in {"success", "failed"}) =>
        executeBtn = [disabled |-> FALSE, label |-> "Execute Query"]

\* executeQuery has ended with the network error of a failed fetch.
C3_Witness ==
    /\ step.op = "executeQuery" /\ step.ev = "failed"
    /\ step.error = NetworkErrorMsg
    /\ executeBtn = [disabled |-> FALSE, label |-> "Execute Query"]

-----------------------------------------------------------------------------
(* Upload: requests in flight, the order within a batch, failures *)

\* The requests outstanding on behalf of batch b: the upload of a file, or the
\* reload of the list that follows a successful upload.
BatchRequests(b, bag) == {r \in BagToSet(bag) : r.batch = b}

\* C5: at most one upload request is in flight, whatever change and drop events
\* arrive.
C5_OneUploadInFlight == Cardinality(Pending("upload")) <= 1

\* C6: a batch has one request outstanding at a time, for its current file; the
\* upload of file k+1 is sent by the step that ends file k (its failed upload, or
\* the reload after its successful upload); a batch ends, clearing the file input,
\* only from its last file.
C6_BatchInOrder ==
    [][\A b \in BatchIds :
         /\ Cardinality(BatchRequests(b, net')) <= 1
         /\ \A r \in BatchRequests(b, net') :
              /\ CopiesIn(r, net') = 1
              /\ r.file = batches'[b].pos
              /\ r.file \in 1..batches'[b].n
         /\ \A r \in BatchRequests(b, net') \ BatchRequests(b, net) :
              r.kind = "upload" =>
                IF r.file = 1
                THEN step'.op = "handleFileSelect" /\ batches[b].phase = "idle"
                ELSE /\ step'.batch = b /\ step'.file = r.file - 1
                     /\ \/ step'.op = "uploadFile" /\ step'.ev = "failed"
                        \/ step'.op = "loadDatasets"
                     /\ \E q \in BatchRequests(b, net) : q.file = r.file - 1
         /\ (batches[b].phase # "idle" /\ batches'[b].phase = "idle") =>
              /\ batches[b].pos = batches[b].n
              /\ fileInput' = ""
         /\ (step'.batch = b /\ step'.op # "handleFileSelect" /\ fileInput' # fileInput) =>
              batches[b].pos = batches[b].n]_vars

\* The second file of a batch is being uploaded, sent when the reload after the
\* first file's upload came back.
C6_Witness ==
    \E b \in BatchIds :
        /\ step.op = "loadDatasets" /\ step.batch = b /\ step.file = 1
        /\ batches[b].pos = 2 /\ batches[b].phase = "upload"
        /\ UploadReq(b, 2) \in Pending("upload")
        /\ fileInput = "chosen"

\* C7: when the upload of file k of a batch fails, uploadFile shows an error toast
\* naming the file and returns normally: the upload of file k+1 is sent if there
\* is one, else the batch ends; a later file can succeed after an earlier failed.
C7_FailureIsolated ==
    [][\A b \in BatchIds :
         (step'.op = "uploadFile" /\ step'.ev = "failed" /\ step'.batch = b) =>
            /\ toast'.type = "error" /\ toast'.text = "Failed to upload"
            /\ toast'.file = step'.file /\ toast'.detail = step'.error
            /\ unhandled' = unhandled
            /\ step'.file = batches[b].pos
            /\ IF batches[b].pos < batches[b].n
               THEN /\ BatchRequests(b, net') = {UploadReq(b, batches[b].pos + 1)}
                    /\ batches'[b].phase = "upload"
               ELSE batches'[b].phase = "idle" /\ BatchRequests(b, net') = {}]_vars

\* The second file of a batch has been uploaded successfully after the first failed.
C7_Witness ==
    \E b \in BatchIds :
        /\ step.op = "uploadFile" /\ step.ev = "success"
        /\ step.batch = b /\ step.file = 2
        /\ batches[b].failed = {1}
        /\ toast.type = "success" /\ toast.file = 2

-----------------------------------------------------------------------------
(* Authentication failures and the handling of failed requests *)

\* The last call of API.request got a response that is not 2xx and whose JSON body
\* carries the authentication-error marker.
MarkedFailure ==
    /\ apiCall.resp.type = "http" /\ apiCall.resp.json
    /\ ~ok(apiCall.resp.status)
    /\ apiCall.resp.body.auth_error

C9_AuthFailureNotToasted ==
    (step.ev = "failed" /\ step.error = AuthRequiredMsg) =>
        /\ authModal
        /\ toast.type # "error"

\* C10 as claimed: every failed operation has shown a toast, and no failure has
\* left a handler as an unhandled rejection.
C10_FailureToasted ==
    /\ ~unhandled
    /\ step.ev = "failed" => toast.type # "none"

\* C10, amended: every failed operation has shown a toast, except a failed load of
\* the history, which shows the error placeholder of the history list without a
\* toast; no failure has left a handler as an unhandled rejection.
C10_FailureReported ==
    /\ ~unhandled
    /\ step.ev = "failed" =>
         IF step.op = "loadQueryHistory"
         THEN toast = NoToast /\ views.historyList = "error"
         ELSE toast.type # "none"

\* The replay of a history entry has failed with the network error and shown its
\* toast.
C10_Witness ==
    /\ step.op = "showQueryResult" /\ step.ev = "failed"
    /\ step.error = NetworkErrorMsg
    /\ toast = showToast("Failed to load query result", "error")
    /\ ~unhandled

-----------------------------------------------------------------------------
(* The classes of failure of API.request, and the export path *)

\* C11: a response that is not 2xx and carries no authentication marker fails with
\* an Error whose message is the server's, or 'HTTP error! status: N' when the
\* body has none or is not JSON; a transport failure fails with the network error;
\* a received response never does.
C11_FailureClasses ==
    LET resp == apiCall.resp
        out == apiCall.out
    IN
    /\ (resp.type = "http" /\ ~ok(resp.status) /\ ~(resp.json /\ resp.body.auth_error)) =>
            /\ out.tag = "throw" /\ out.name = "Error"
            /\ out.message = IF resp.json /\ resp.body.error # "" THEN resp.body.error
                             ELSE HttpErrorMsg(resp.status)
    /\ resp.type = "transport" =>
            out.tag = "throw" /\ out.message = NetworkErrorMsg
    /\ resp.type = "http" => out.message # NetworkErrorMsg

\* The outcome is the authentication failure: 'Authentication required' is thrown
\* and the show-auth-modal hook was invoked if there is one.
IsAuthOutcome(out) ==
    out.tag = "throw" /\ out.message = AuthRequiredMsg /\ out.hook = authManager

\* C12: for every response, API.exportResults treats it as an authentication
\* failure exactly when API.request does.
C12_SameAuthDetection ==
    exportCall.out.tag # "none" =>
        (IsAuthOutcome(exportCall.out)
            <=> IsAuthOutcome(request(variant, exportCall.resp, authManager)))

-----------------------------------------------------------------------------
(* Navigation: the sections, their on-enter loads and the dashboard *)

\* The loaded page of a signed-in user, with any datasets and any history; no
\* window.authManager; the user events are not counted.
LoadedNav ==
    /\ Loaded
    /\ clicks = MaxClicks
    /\ ~authManager
    /\ variant = "AMINA" => currentUser # "none"

NextNav ==
    \/ switchSection
    \/ refreshDatasets
    \/ refreshHistory
    \/ showQueryResult
    \/ showQueryResultResponse
    \/ clearQueryHistory
    \/ clearQueryHistoryResponse
    \/ loadDatasetsResponse
    \/ loadQueryHistoryResponse

SpecNav == LoadedNav /\ [][NextNav]_vars

\* The loaded page of a user who has a dataset and no history yet.
LoadedDash ==
    /\ LoadedNav
    /\ variant = "AMINA" => currentUser = "user"
    /\ datasets = {[id |-> 1, name |-> <<"a">>]}
    /\ queryHistory = {}

\* Navigation on a page where queries are executed as well.
NextDash ==
    \/ switchSection
    \/ setQueryInput
    \/ toggleDatasetSelection
    \/ executeQuery
    \/ executeQueryResponse
    \/ loadDatasetsResponse
    \/ loadQueryHistoryResponse

SpecDash == LoadedDash /\ [][NextDash]_vars

\* C13 as claimed: currentSection is one of the four sections, dashboard at first,
\* and changes only in the step of a navigation click, to the section clicked.
C13_OnlyNavigationSwitches ==
    /\ currentSection = "dashboard"
    /\ [](currentSection \in Sections)
    /\ [][/\ step'.op = "switchSection" => currentSection' = step'.ev
          /\ currentSection' # currentSection => step'.op = "switchSection"]_vars

\* C13, amended: currentSection is one of the four sections, dashboard at first,
\* and changes only in the step of a navigation click, to the section clicked, or
\* to query when the response of a history replay arrives with a result.
C13_SwitchesOrReplay ==
    /\ currentSection = "dashboard"
    /\ [](currentSection \in Sections)
    /\ [][/\ step'.op = "switchSection" => currentSection' = step'.ev
          /\ currentSection' # currentSection =>
                \/ step'.op = "switchSection"
                \/ /\ step'.op = "showQueryResult" /\ step'.ev = "success"
                   /\ currentSection' = "query"]_vars

\* The replay of a history entry, started in the history section, has brought the
\* page to the query section.
C13_Witness ==
    /\ step.op = "showQueryResult" /\ step.ev = "success"
    /\ currentSection = "query"
    /\ resultsVisible

\* The kinds of the requests a step sends.
SentKinds == {r.kind : r \in BagToSet(net' (-) net)}

\* C14: every entry into a section performs the on-enter action of the section:
\* dashboard asks the server for the dataset list and the history, datasets for the
\* dataset list, history for the history, and query sends nothing and renders the
\* summary of the datasets from the local list.
C14_OnEnterActions ==
    [][step'.op = "switchSection" =>
          CASE step'.ev = "dashboard" -> SentKinds = {"list", "history"}
            [] step'.ev = "datasets" -> SentKinds = {"list"}
            [] step'.ev = "history" -> SentKinds = {"history"}
            [] step'.ev = "query" ->
                  /\ SentKinds = {}
                  /\ datasets' = datasets /\ selected' = CheckboxesAfterRender]_vars

\* The step that completes the on-enter work of the dashboard as far as the
\* history is concerned: the entry itself when it sends no request, else the
\* successful return of the history reload it started.
DashboardEntered ==
    \/ step'.op = "switchSection" /\ step'.ev = "dashboard" /\ net' = net
    \/ /\ step'.op = "loadQueryHistory" /\ step'.ev = "success"
       /\ \E r \in Pending("history") : r.cause = "dashboard" /\ net' = Receive(r)

\* C15: once the on-enter work of a switch to the dashboard has completed,
\* #totalQueries shows the length of the history the server holds, whatever has
\* changed that history since the page was loaded.
C15_DashboardShowsServerCount ==
    [][DashboardEntered => views'.totalQueries = Cardinality(server'.history)]_vars

-----------------------------------------------------------------------------
(* The dataset operations that change what the server stores: upload, rename and
   delete, each with the reload of the list that follows it *)

\* The loaded page of a user who may manage the datasets; the user events are
\* counted.
LoadedData ==
    /\ Loaded
    /\ clicks = 0
    /\ ~authManager
    /\ queryHistory = {}
    /\ variant = "AMINA" => currentUser = "admin"

NextData ==
    \/ Budget /\ MayLoad /\ handleFileSelect
    \/ uploadFileResponse
    \/ hideProgress
    \/ Budget /\ renameDataset
    \/ Budget /\ deleteDataset
    \/ changeDatasetResponse
    \/ loadDatasetsResponse

SpecData == LoadedData /\ [][NextData]_vars

\* The reload that follows the rename answered with r.text returns the list.
RenameReloaded(r) ==
    /\ r.cause = "rename" /\ net' = Receive(r)
    /\ step'.op = "loadDatasets" /\ step'.ev = "success"

\* A rename sends a request only for an answer that was given, is not empty and
\* differs from the name the dataset has in the list.
RenameSkipsNoOps ==
    /\ step'.op = "renameDataset" /\ step'.ev = "issued" =>
           \A r \in BagToSet(net' (-) net) :
               /\ r.kind = "rename"
               /\ r.text # <<>> /\ r.text # NameOf(datasets, r.id)
    /\ step'.op = "renameDataset" /\ step'.ev = "skipped" => net' = net
    /\ "rename" \in SentKinds => step'.op = "renameDataset" /\ step'.ev = "issued"

Reloaded(r, cause) ==
    /\ r.cause = cause /\ net' = Receive(r)
    /\ step'.op = "loadDatasets" /\ step'.ev = "success"

-----------------------------------------------------------------------------
(* Registration: handleRegister and handleAdminRegister of LoginManager *)

\* What the user may have typed into the confirmation field.
Confirmations(password) == {password, password \o <<"a">>}

\* What the user may have typed into the admin key field.
AdminKeys == {<<>>, <<" ">>, <<" ", "k">>}

RegisterEndpoint == "/api/auth/register"
AdminRegisterEndpoint == "/api/auth/register-admin"

RegisterNotice_MatchFirst(form) ==
    IF form.password # form.confirmPassword THEN "Passwords do not match"
    ELSE IF ~form.check.valid THEN form.check.message
    ELSE IF form.form = "admin" /\ Trim(form.adminKey) = <<>>
    THEN "Admin registration key is required"
    ELSE ""

\* The checks of a registration form before its fetch, in the order of the code:
\* the notice of the first one that fails, or "" when they pass.
RegisterNotice(form) ==
    IF ~form.check.valid THEN form.check.message
    ELSE IF form.password # form.confirmPassword THEN "Passwords do not match"
    ELSE IF form.form = "admin" /\ Trim(form.adminKey) = <<>>
    THEN "Admin registration key is required"
    ELSE ""

\* A submit of the registration form (handleRegister) or of the admin
\* registration form (handleAdminRegister), with the fields as they are filled in,
\* up to the await of its fetch.
submitRegister(kind, endpoint) ==
    /\ page = "login" /\ MayLoad
    /\ LET form == [login EXCEPT !.form = kind,
                                 !.check = validatePassword(login.password)]
           op == IF kind = "admin" THEN "handleAdminRegister" ELSE "handleRegister"
       IN
       /\ login' = form
       /\ IF RegisterNotice(form) # ""
          THEN /\ toast' = showToast(RegisterNotice(form), "error")
               /\ step' = Step(op, "rejected")
               /\ UNCHANGED net
          ELSE /\ net' = Send([NoReq EXCEPT !.kind = endpoint])
               /\ toast' = NoToast
               /\ step' = Step(op, "issued")
    /\ clicks' = Clicked
    /\ UNCHANGED <<variant, authManager, apiCall, exportCall, domVars, server, trip,
                   userVars, dataVars, uploadVars, queryVars, authModal, currentSection,
                   unhandled>>

handleRegister == submitRegister("user", RegisterEndpoint)

handleAdminRegister == submitRegister("admin", AdminRegisterEndpoint)

\* handleRegister / handleAdminRegister from the resumption of the fetch: the body
\* is read without a status check; on declared success the redirect to /app is
\* scheduled.
registerResponse ==
    /\ page = "login"
    /\ \E req \in Pending(RegisterEndpoint) \cup Pending(AdminRegisterEndpoint),
          got \in FetchOutcomes :
         LET admin == req.kind = AdminRegisterEndpoint
             op == IF admin THEN "handleAdminRegister" ELSE "handleRegister"
         IN
         /\ net' = Receive(req)
         /\ IF Succeeded(got)
            THEN /\ toast' = showToast(IF admin THEN "Admin account created successfully!"
                                       ELSE "Account created successfully!", "success")
                 /\ page' = "entering"
                 /\ step' = Step(op, "success")
            ELSE IF got.tag = "return"
            THEN /\ toast' = showToast(IF got.data.error # "" THEN got.data.error
                                       ELSE IF admin THEN "Admin registration failed"
                                       ELSE "Registration failed", "error")
                 /\ step' = Fail(op, got.data.error)
                 /\ UNCHANGED page
            ELSE /\ toast' = showToast("Network error. Please try again.", "error")
                 /\ step' = Fail(op, got.message)
                 /\ UNCHANGED page
    /\ UNCHANGED <<envVars, clicks, currentUser, dataVars, uploadVars, queryVars, authModal,
                   currentSection, unhandled>>

\* The login page, reached by a redirect, with its registration forms filled in:
\* no application controller runs on it.
LoginPage ==
    /\ variant = "AMINA"
    /\ authManager = FALSE
    /\ authModal = FALSE
    /\ apiCall = NoCall
    /\ exportCall = NoCall
    /\ \E password \in Passwords :
         \E confirmPassword \in Confirmations(password), adminKey \in AdminKeys :
            login = [NoForm EXCEPT !.password = password,
                                   !.confirmPassword = confirmPassword,
                                   !.adminKey = adminKey]
    /\ server = [datasets |-> {}, history |-> {}]
    /\ trip = NoTrip
    /\ page = "login"
    /\ currentUser = "none"
    /\ currentSection = "dashboard"
    /\ datasets = {}
    /\ selected = {}
    /\ queryHistory = {}
    /\ currentQuery = NoResult
    /\ queryInput = <<>>
    /\ executeBtn = [disabled |-> FALSE, label |-> "Execute Query"]
    /\ resultsVisible = FALSE
    /\ views = [datasetsList |-> "list", historyList |-> "list", modal |-> "none",
                totalQueries |-> 0]
    /\ net = EmptyBag
    /\ batches = [b \in BatchIds |-> IdleBatch]
    /\ fileInput = ""
    /\ progress = NoProgress
    /\ toast = NoToast
    /\ unhandled = FALSE
    /\ clicks = MaxClicks
    /\ step = Step("init", "done")
    /\ NothingRendered /\ NoNotices

NextRegister ==
    \/ handleRegister
    \/ handleAdminRegister
    \/ registerResponse

SpecRegister == LoginPage /\ [][NextRegister]_vars

\* C19: validatePassword accepts a password exactly when it has at least 8
\* characters, an uppercase letter, a lowercase letter, a digit and a symbol of the
\* punctuation set; otherwise its message is that of the first rule violated, in
\* the order length, uppercase, lowercase, digit, symbol.
C19_PasswordPolicy ==
    login.form # "none" =>
        LET pw == login.password
            violated ==
                <<Len(pw) < 8,
                  \A i \in 1..Len(pw) : pw[i] # "A",
                  \A i \in 1..Len(pw) : pw[i] # "a",
                  \A i \in 1..Len(pw) : pw[i] # "1",
                  \A i \in 1..Len(pw) : pw[i] # "!">>
            messages ==
                <<"Password must be at least 8 characters long",
                  "Password must contain at least one uppercase letter",
                  "Password must contain at least one lowercase letter",
                  "Password must contain at least one number",
                  "Password must contain at least one special character (!@#$%^&*)">>
        IN
        /\ login.check.valid <=> \A k \in 1..5 : ~violated[k]
        /\ \A k \in 1..5 :
              (violated[k] /\ \A j \in 1..(k - 1) : ~violated[j])
                  => login.check.message = messages[k]

\* A password that breaks two rules, digit and symbol, was answered with the
\* message of the digit rule.
C19_Witness ==
    /\ login.form # "none"
    /\ Len(login.password) >= 8
    /\ \E i \in 1..Len(login.password) : login.password[i] = "-"
    /\ ~\E i \in 1..Len(login.password) : login.password[i] \in {"1", "!"}
    /\ login.check = [valid |-> FALSE,
                      message |-> "Password must contain at least one number"]

\* C20: a registration form sends a request only when its password satisfies the
\* policy and equals the confirmation and, for the admin form, the admin key is
\* not blank; the first of these checks that fails, in this order, gives the error
\* notice and nothing is sent; a form that passes is posted to /api/auth/register,
\* the admin form to /api/auth/register-admin.
C20_RegisterChecks ==
    [][/\ SentKinds \cap {"/api/auth/register", "/api/auth/register-admin"} # {} =>
             step'.ev = "issued" /\ step'.op \in {"handleRegister", "handleAdminRegister"}
       /\ (step'.op \in {"handleRegister", "handleAdminRegister"}
           /\ step'.ev \in {"issued", "rejected"}) =>
             LET f == login'
                 admin == step'.op = "handleAdminRegister"
                 policy == validatePassword(f.password)
                 match == f.password = f.confirmPassword
                 key == ~admin \/ \E i \in 1..Len(f.adminKey) : f.adminKey[i] # " "
             IN
             /\ f.form = (IF admin THEN "admin" ELSE "user")
             /\ f.password = login.password
             /\ f.confirmPassword = login.confirmPassword
             /\ f.adminKey = login.adminKey
             /\ IF policy.valid /\ match /\ key
                THEN /\ step'.ev = "issued"
                     /\ net' = net (+) SetToBag({[NoReq EXCEPT !.kind =
                                   IF admin THEN "/api/auth/register-admin"
                                   ELSE "/api/auth/register"]})
                ELSE /\ step'.ev = "rejected"
                     /\ net' = net
                     /\ toast'.type = "error"
                     /\ toast'.text = IF ~policy.valid THEN policy.message
                                      ELSE IF ~match THEN "Passwords do not match"
                                      ELSE "Admin registration key is required"]_vars

\* An admin registration with a strong, confirmed password and a blank admin key
\* was refused without a request.
C20_Witness ==
    /\ step.op = "handleAdminRegister" /\ step.ev = "rejected"
    /\ login.check.valid /\ login.password = login.confirmPassword
    /\ login.adminKey = <<" ">>
    /\ toast.text = "Admin registration key is required"
    /\ net = EmptyBag

-----------------------------------------------------------------------------
(* The rendering of query results *)

\* The loaded page when a query has been answered with a result that carries
\* visualizations: the result is about to be rendered.
LoadedRender ==
    /\ LoadedApp
    /\ clicks = MaxClicks /\ ~authManager
    /\ datasets = {} /\ queryHistory = {}
    /\ variant = "AMINA" => currentUser = "user"
    /\ queryResult \in [visualizations : VizLists, data_tables : {<<>>}]
    /\ content = NoContent /\ timers = <<>> /\ now = 0
    /\ NoNotices

NextRender ==
    \/ renderQueryResults
    \/ renderVisualization
    \/ tick

SpecRender == LoadedRender /\ [][NextRender]_vars

\* The loaded page when a query has been answered with a result that carries
\* data tables.
LoadedTables ==
    /\ LoadedApp
    /\ clicks = MaxClicks /\ ~authManager
    /\ datasets = {} /\ queryHistory = {}
    /\ variant = "AMINA" => currentUser = "user"
    /\ queryResult \in [visualizations : {<<>>}, data_tables : TableLists]
    /\ content = NoContent /\ timers = <<>> /\ now = 0
    /\ NoNotices

NextTables == renderQueryResults

SpecTables == LoadedTables /\ [][NextTables]_vars

\* The content the rendering contract gives to the block of a visualization: an
\* image for an entry with a url, else its markup, else the placeholder.
ContractBody(viz) ==
    IF viz.url # Absent THEN Image(viz.url, viz.title)
    ELSE IF viz.html # Absent THEN Markup(viz.html)
    ELSE NoVizContent

\* C21: a rendered result has one visualization block per entry, in input order,
\* and each block that has been rendered shows its entry by shape: the image of
\* its url with the title as alt text, else its markup, else the placeholder.
C21_RenderedByShape ==
    content.render > 0 =>
        /\ Len(content.visualizations) = Len(queryResult.visualizations)
        /\ \A i \in 1..Len(content.visualizations) :
             LET block == content.visualizations[i] IN
             /\ block.title = queryResult.visualizations[i].title
             /\ block.body # VizLoading =>
                    block.body = ContractBody(queryResult.visualizations[i])

\* C22: a rendered result has one table per entry of data_tables, with the
\* columns as header and one row per record, whose cells are empty for null and
\* missing values and show every other value as itself.
C22_TablesRendered ==
    content.render > 0 =>
        /\ Len(content.tables) = Len(queryResult.data_tables)
        /\ \A i \in 1..Len(content.tables) :
             LET shown == content.tables[i].table
                 table == queryResult.data_tables[i]
             IN
             /\ shown.tag = "table"
             /\ shown.header = table.columns
             /\ Len(shown.rows) = Len(table.data)
             /\ \A r \in 1..Len(shown.rows) :
                  /\ Len(shown.rows[r]) = Len(table.columns)
                  /\ \A j \in 1..Len(table.columns) :
                       LET value == table.data[r][table.columns[j]] IN
                       shown.rows[r][j] = IF value.type \in {"null", "undefined"}
                                          THEN "" ELSE value.text

\* C30: the container ids of PharmaQueryApp are unique: no two blocks of a render
\* share one, none was generated by an earlier render, and a container is filled
\* only by a callback of its own render.
C30_ContainerIdsUnique ==
    variant = "Pharma" =>
        LET blocks == content.visualizations IN
        /\ \A i, j \in 1..Len(blocks) : blocks[i].id = blocks[j].id => i = j
        /\ ContainerIds(blocks) \cap content.issued = {}
        /\ \A i \in 1..Len(blocks) : blocks[i].filledBy \in {0, content.render}

-----------------------------------------------------------------------------
(* Toast notifications: UI.showToast and UI.removeToast *)

DefaultDuration == 5000

\* The durations showToast is called with: the default, and 0.
Durations == {0, DefaultDuration}

AutoDismisses_Always(duration) == TRUE

\* if (duration > 0) setTimeout(() => this.removeToast(toastId), duration)
AutoDismisses(duration) == duration > 0

\* The timers of a toast: the auto-removal set by showToast, and the removal of
\* the element set by removeToast.
DismissTimer(id) == [kind |-> "dismiss", id |-> id]
RemoveTimer(id) == [kind |-> "remove", id |-> id]

\* document.getElementById(`toast-${toastId}`) finds an element.
InDocument(id) == \E n \in notices : n.id = id

\* UI.removeToast(toastId), called by whom ("close" or "timer"): a toast in the
\* document starts its slide-out and the removal of its element is scheduled; for
\* any other id nothing happens.  bag is the pending timers before the call.
removeToast(id, by, bag) ==
    IF InDocument(id)
    THEN /\ notices' = {IF n.id = id
                        THEN [n EXCEPT !.leaving = TRUE,
                                       !.closed = @ \/ by = "close"]
                        ELSE n : n \in notices}
         /\ toastTimers' = bag (+) SetToBag({RemoveTimer(id)})
    ELSE /\ notices' = notices
         /\ toastTimers' = bag

toastFrame ==
    <<variant, authManager, apiCall, exportCall, login, renderVars, server, trip,
      userVars, dataVars, uploadVars, queryVars, authModal, currentSection, net,
      unhandled, clicks, toastContainer>>

\* A call of UI.showToast(message, type, duration).
showToastCall ==
    /\ toastId < MaxToasts
    /\ \E duration \in Durations :
         IF ~toastContainer
         THEN /\ step' = Step("showToast", "no container")
              /\ UNCHANGED <<toastId, notices, toastTimers>>
         ELSE /\ toastId' = toastId + 1
              /\ notices' = notices \cup {[id |-> toastId + 1, duration |-> duration,
                                           leaving |-> FALSE, closed |-> FALSE]}
              /\ toastTimers' = IF AutoDismisses(duration)
                                THEN toastTimers (+) SetToBag({DismissTimer(toastId + 1)})
                                ELSE toastTimers
              /\ step' = Step("showToast", "shown")
    /\ toast' = showToast("message", "info")
    /\ UNCHANGED toastFrame

\* A click on the close button of a toast in the document: UI.removeToast(id).
closeToast ==
    /\ BagCardinality(toastTimers) < MaxToastTimers
    /\ \E n \in notices : removeToast(n.id, "close", toastTimers)
    /\ step' = Step("closeToast", "done")
    /\ UNCHANGED <<toastFrame, toastId, toast>>

\* The timer set by showToast fires: UI.removeToast(toastId).
dismissToast ==
    /\ \E t \in BagToSet(toastTimers) :
         /\ t.kind = "dismiss"
         /\ removeToast(t.id, "timer", toastTimers (-) SetToBag({t}))
    /\ step' = Step("dismissToast", "done")
    /\ UNCHANGED <<toastFrame, toastId, toast>>

\* The timer set by removeToast fires:
\* if (toast.parentNode) toast.parentNode.removeChild(toast)
removeToastElement ==
    /\ \E t \in BagToSet(toastTimers) :
         /\ t.kind = "remove"
         /\ toastTimers' = toastTimers (-) SetToBag({t})
         /\ notices' = {n \in notices : n.id # t.id}
    /\ step' = Step("removeToastElement", "done")
    /\ UNCHANGED <<toastFrame, toastId, toast>>

\* The loaded page, with or without a #toastContainer in its document.
LoadedToast ==
    /\ LoadedApp
    /\ clicks = MaxClicks /\ ~authManager
    /\ datasets = {} /\ queryHistory = {}
    /\ variant = "AMINA" => currentUser = "user"
    /\ NothingRendered
    /\ toastContainer \in BOOLEAN
    /\ toastId = 0 /\ notices = {} /\ toastTimers = EmptyBag

NextToast ==
    \/ showToastCall
    \/ closeToast
    \/ dismissToast
    \/ removeToastElement

SpecToast == LoadedToast /\ [][NextToast]_vars

\* The notices a step adds to the document, and those it takes out of it.
Added == {n \in notices' : ~InDocument(n.id)}
Removed == {n \in notices : \A m \in notices' : m.id # n.id}

\* A step that calls showToast adds one notice, under an id no notice in the
\* document has and no earlier notice had; its auto-removal is scheduled exactly
\* when its duration is positive.
CreatesNotice ==
    /\ Cardinality(Added) = 1
    /\ \A n \in Added :
         /\ n.id = toastId' /\ toastId' > toastId
         /\ ~n.leaving
         /\ (DismissTimer(n.id) \in BagToSet(toastTimers')) <=> (n.duration > 0)

\* Notices leave the document one at a time, by the removal scheduled for them,
\* and only after removeToast was called for them; calling removeToast for a
\* notice that is leaving or gone changes no notice.
RemovalIsIdempotent ==
    /\ Removed # {} =>
           /\ step'.op = "removeToastElement"
           /\ \E n \in Removed :
                /\ Removed = {n} /\ n.leaving
                /\ toastTimers = toastTimers' (+) SetToBag({RemoveTimer(n.id)})
    /\ step'.op \in {"closeToast", "dismissToast"} =>
           /\ Removed = {} /\ Added = {}
           /\ \A n \in notices :
                n \in notices' \/ \E m \in notices' : m.id = n.id /\ m.leaving
           /\ Cardinality({n \in notices :
                   ~n.leaving /\ \E m \in notices' : m.id = n.id /\ m.leaving}) <= 1
    /\ step'.op = "removeToastElement" =>
           \A n \in notices : n \in notices' \/ n \in Removed

\* The ids of the notices are distinct and were all given out by the counter; a
\* notice with a positive duration keeps its auto-removal scheduled until it
\* leaves, a leaving notice has its removal scheduled, and a notice with duration
\* 0 leaves only when its close button was clicked.
NoticesWellFormed ==
    /\ \A n, m \in notices : n.id = m.id => n = m
    /\ \A n \in notices :
         /\ n.id \in 1..toastId
         /\ n.duration > 0 /\ ~n.leaving => DismissTimer(n.id) \in BagToSet(toastTimers)
         /\ n.leaving => RemoveTimer(n.id) \in BagToSet(toastTimers)
         /\ n.duration = 0 /\ n.leaving => n.closed

\* C23 as claimed: every call of showToast creates a notice under an id of its
\* own; a notice with a positive duration is removed by its timer, one with
\* duration 0 only by its close button; removing twice is a no-op.
C23_EveryCallCreatesNotice ==
    /\ []NoticesWellFormed
    /\ [][/\ step'.op = "showToast" => CreatesNotice
          /\ RemovalIsIdempotent]_vars

\* C23, amended: a call of showToast creates a notice under an id of its own when
\* the page has a toast container, and creates nothing when it has none; a notice
\* with a positive duration is removed by its timer, one with duration 0 only by
\* its close button; removing twice is a no-op.
C23_CallCreatesNoticeInContainer ==
    /\ []NoticesWellFormed
    /\ [][/\ step'.op = "showToast" =>
                IF toastContainer THEN CreatesNotice
                ELSE Added = {} /\ UNCHANGED <<toastId, notices, toastTimers>>
          /\ RemovalIsIdempotent]_vars

\* The close button of a notice was clicked after its timer had started its
\* removal: removeToast has run twice for it, both removals of its element are
\* scheduled, and another notice is in the document.
C23_Witness ==
    /\ step.op = "closeToast"
    /\ Cardinality(notices) = 2
    /\ \E n \in notices :
         /\ n.duration > 0 /\ n.leaving /\ n.closed
         /\ DismissTimer(n.id) \notin BagToSet(toastTimers)
         /\ CopiesIn(RemoveTimer(n.id), toastTimers) = 2

-----------------------------------------------------------------------------
(* The startup of the page with the user already at work: the loads of
   loadInitialData are still in flight when files are dropped *)

\* The user has not done anything yet.
FirstEvent == clicks = 0

NextSync ==
    \/ loadUserInfoResponse
    \/ serveList
    \/ loadDatasetsResponse
    \/ FirstEvent /\ switchSection
    \/ FirstEvent /\ refreshDatasets
    \/ FirstEvent /\ handleFileSelect
    \/ uploadFileResponse

\* The page after construction, for a server that stores nothing yet and a
\* document without window.authManager.
Starting ==
    /\ Init
    /\ ~authManager
    /\ server = [datasets |-> {}, history |-> {}]

SpecSync == Starting /\ [][NextSync]_vars

\* C24: when a list of datasets has just been loaded and no request is
\* outstanding (but for the history, which does not concern the datasets), the
\* local datasets are the ones the server stores.
C24_CacheIsLatest ==
    (/\ \A r \in BagToSet(net) : r.kind = "history"
     /\ step.op = "loadDatasets" /\ step.ev = "success") =>
        datasets = server.datasets

\* C27: for an admin, every request for the dataset list and every upload of
\* AMINAApp goes to the admin endpoint.
C27_AdminEndpoints ==
    (variant = "AMINA" /\ currentUser = "admin") =>
        \A r \in Pending("list") \cup Pending("upload") : r.admin

(* The progress indicator while uploads are in flight *)

\* C25: whenever an upload request is in flight the progress indicator is
\* displayed; a hide scheduled by an earlier upload does not hide it.
C25_IndicatorShownInFlight ==
    Pending("upload") # {} => progress.visible

\* The uploads of one user event with the ticks of their progress timers.
LoadedProgress ==
    /\ Loaded
    /\ clicks = 0
    /\ datasets = {} /\ queryHistory = {}
    /\ ~authManager
    /\ variant = "AMINA" => currentUser # "none"

NextProgress ==
    \/ FirstEvent /\ handleFileSelect
    \/ uploadFileResponse
    \/ loadDatasetsResponse
    \/ hideProgress
    \/ progressTick

SpecProgress == LoadedProgress /\ [][NextProgress]_vars

\* The upload a progress timer was started for is in flight.
InFlight(i) == \E r \in Pending("upload") : r.batch = i[1] /\ r.file = i[2]

\* C26: the progress timer of an upload runs only while that upload's request
\* is in flight: it is stopped on every outcome of the request, no tick comes
\* after the upload ended, and a tick never raises the width above 90%.
C26_TimerOnlyInFlight ==
    /\ \A i \in progress.intervals : InFlight(i)
    /\ step.op = "progressTick" =>
          /\ InFlight(<<step.batch, step.file>>)
          /\ progress.width <= 90

-----------------------------------------------------------------------------
(* Who may change a shared dataset *)

\* The loaded page of AMINAApp with a dataset listed, for every user.
LoadedGuard ==
    /\ Loaded
    /\ clicks = 0
    /\ variant = "AMINA"
    /\ ~authManager
    /\ datasets = {[id |-> 1, name |-> <<"a">>]}
    /\ queryHistory = {}

NextGuard ==
    \/ Budget /\ renameDataset
    \/ Budget /\ deleteDataset
    \/ Budget /\ AMINAApp_renameDataset
    \/ changeDatasetResponse
    \/ loadDatasetsResponse

SpecGuard == LoadedGuard /\ [][NextGuard]_vars

\* C28: AMINAApp sends a rename or a delete of a shared dataset only when the
\* current user is an admin; for another user, or before the user is loaded,
\* none of its operations sends one.
C28_AdminOnlyMutations ==
    (variant = "AMINA" /\ currentUser # "admin") =>
        Pending("rename") \cup Pending("delete") = {}

-----------------------------------------------------------------------------
(* The failures of the initial load *)

NextStartup ==
    \/ loadUserInfoResponse
    \/ serveList
    \/ loadDatasetsResponse
    \/ loadQueryHistoryResponse

SpecStartup == Starting /\ [][NextStartup]_vars

\* A step in which the list or the history request of loadInitialData fails.
InitialLoadFails(r) ==
    /\ r.cause = "init"
    /\ net' = Receive(r)
    /\ step'.op = (IF r.kind = "list" THEN "loadDatasets" ELSE "loadQueryHistory")
    /\ step'.ev = "failed"

\* C29: when a request of the initial load of AMINAApp fails with
\* 'Authentication required' the page goes to /login, and for any other failure
\* the toast 'Error loading data' is shown.
C29_InitialLoadFailureHandled ==
    [][variant = "AMINA" =>
          \A r \in Pending("list") \cup Pending("history") :
              InitialLoadFails(r) =>
                  IF step'.error = AuthRequiredMsg
                  THEN page' = "login"
                  ELSE toast' = showToast("Error loading data", "error")]_vars

====
